---- MODULE Spec2Model ----
(***************************************************************************)
(* Lumi voice-chat relay: the WebSocket gateway (setupWebSocket,           *)
(* handleInit, handleCompleteAudio, handleDisconnection, sendMessage), the *)
(* conversation service (initializeSession, processCompleteAudio,          *)
(* cleanupSession) and the provider adapters it calls (transcribeAudio,    *)
(* generateResponse, synthesizeSpeech, pushChat, getRecentChats).          *)
(*                                                                         *)
(* Every handler is an async function: it runs atomically from one await   *)
(* of an I/O call to the next, and handlers of different messages          *)
(* interleave at those awaits.  A handler invocation is a record in        *)
(* `tasks`; its field pc names the await it is suspended at.               *)
(***************************************************************************)
EXTENDS Integers, Sequences, FiniteSets, TLC

\* ---------------------------------------------------------------- bounds
MaxInit  == 2   \* init frames received in a run
MaxAudio == 2   \* audio frames received in a run
SeedLen  == 11  \* length of the non-empty chat log the server may start with
TurnInits  == 1 \* init frames of a run of the one-connection specification
TurnAudios == 1 \* audio frames of a run of the one-connection specification
MaxOther == 2   \* frames of a run that are neither init nor audio
MaxLen == 4     \* characters of a provider reply in the reply specification
MaxSock == 2    \* client: WebSocket objects constructed by connectWS in a run
MaxSend == 2    \* client: sendCompleteAudio calls of a run
MaxRecv == 2    \* client: frames the client receives in a run
MaxConn == 3    \* client: WebSocket objects of a run of the reconnect specification
MaxDeduct == 2  \* credits: deductCredits requests of a run
MaxAmount == 3  \* credits: largest amount requested
MaxCredits == 4 \* credits: largest opening balance

\* ------------------------------------------------------- program constants
MinAudioBytes == 1000   \* stt.ts: audioBuffer.length < 1000
ContextCap    == 10     \* conversation.ts: .slice(-10)
ChatCap       == 100    \* redis.util: ltrim(key, -100, -1)
maxAttempts   == 60     \* part_005: pollVideoStatus, const maxAttempts

\* ------------------------------------------------------------ input sets
Conns     == {"c1", "c2"}
UserIds   == {"u1"}
FriendIds == {"f1"}
Absent    == "<absent>"      \* an optional field that is not set / null

VARIABLES
  wsOpen,       \* [Conns -> BOOLEAN]  ws.readyState === WebSocket.OPEN
  wsFault,      \* [Conns -> BOOLEAN]  ws.send(...) on this socket throws
  wsSessions,   \* part_002 `sessions` Map<WebSocket, ClientSession>: conn -> index into clientHeap, 0 = no entry
  clientHeap,   \* the ClientSession objects ever constructed (object identity = index)
  sessions,     \* conversation.ts `sessions` Map<string, Session>: sessionId -> index into sessionHeap, 0 = no entry
  sessionHeap,  \* the Session objects ever constructed (object identity = index)
  chat,         \* Short-Term Chat Log: userId -> list of [role, message] (redis list chat:<userId>)
  tasks,        \* handler invocations in arrival order
  socket,            \* ws.ts `socket`: index into sockets, 0 = null
  isSessionReady,    \* ws.ts `isSessionReady`
  connectionPromise, \* ws.ts `connectionPromise`: index into promises, 0 = null
  eventHandlers,     \* ws.ts `eventHandlers`: slot -> 0 (the application's handler) or k (the wrapper of promise k)
  sockets,           \* the WebSocket objects the client constructed
  promises,          \* the promises the client returned
  received,          \* frames received so far
  subscription,      \* prisma.subscription row of the user: <<>> (none) or <<row>>
  cache,             \* redis `subscription:<userId>`: <<>> or <<row>>
  opening,           \* the subscription rows before the first request
  requests,          \* deductCredits: one record per HTTP request
  poll               \* pollVideoStatus: the call's position, loop counter and result

serverVars == <<wsOpen, wsFault, wsSessions, clientHeap, sessions, sessionHeap, chat, tasks>>
clientVars == <<socket, isSessionReady, connectionPromise, eventHandlers, sockets, promises, received>>
apiVars == <<subscription, cache, opening, requests, poll>>
vars == <<wsOpen, wsFault, wsSessions, clientHeap, sessions, sessionHeap, chat, tasks, clientVars, apiVars>>

\* ws.ts 2-4, 27: the module's state when it is loaded
ClientInit ==
  /\ socket = 0 /\ isSessionReady = FALSE /\ connectionPromise = 0
  /\ eventHandlers = [onReady |-> 0, onResponse |-> 0, onError |-> 0]
  /\ sockets = <<>> /\ promises = <<>> /\ received = 0

\* part_004, part_005: no request was made yet; the user has a subscription row
Row(c, f) == [credits |-> c, freeCredits |-> f]
IdlePoll == [pc |-> "idle", attempt |-> 0, requests |-> 0, result |-> "", failedAt |-> 0]
ApiInit ==
  /\ subscription = <<Row(0, 0)>> /\ cache = <<>> /\ opening = subscription
  /\ requests = <<>> /\ poll = IdlePoll

\* --------------------------------------------------------------- helpers
\* `${userId}-${friendId}`
SessionId(u, f) == u \o "-" \o f

SessionIds == {SessionId(u, f) : u \in UserIds, f \in FriendIds}

\* Array.prototype.slice(-n)
LastN(s, n) == IF Len(s) <= n THEN s ELSE SubSeq(s, Len(s) - n + 1, Len(s))

\* JavaScript truthiness of an optional string
Truthy(x) == x # Absent /\ x # ""

\* `${m.role}: ${m.message}`
CtxLine(role, message) == role \o ": " \o message

\* recent.map(m => `${m.role}: ${m.message}`)
MapCtx(log) == [k \in 1..Len(log) |-> CtxLine(log[k].role, log[k].message)]

\* redis.lrange(key, 0, -1): the whole list
GetRecentChats(u) == chat[u]

SeedLog(n) == [k \in 1..n |-> [role |-> IF k % 2 = 1 THEN "user" ELSE "ai",
                               message |-> "m" \o ToString(k)]]

\* ----------------------------------------------------------------- frames
Frame(type, message, details, sessionId, text, transcript, audio) ==
  [type |-> type, message |-> message, details |-> details, sessionId |-> sessionId,
   text |-> text, transcript |-> transcript, audioBuffer |-> audio]

ErrorFrame(message, details) == Frame("error", message, details, Absent, Absent, Absent, Absent)
ReadyFrame(sessionId) ==
  Frame("ready", "Session initialized and ready to process audio", Absent, sessionId,
        Absent, Absent, Absent)
ProcessingFrame == Frame("processing", "Processing your audio...", Absent, Absent, Absent, Absent, Absent)
ResponseFrame(text, transcript, audio) ==
  Frame("response", Absent, Absent, Absent, text, transcript, audio)

\* a sendMessage that writes every frame twice
SendMessageTwice(open, frames, fr) == IF open THEN Append(Append(frames, fr), fr) ELSE frames

\* sendMessage 263-270: the frame is written when the socket is OPEN and
\* ws.send does not throw; otherwise it is dropped (warned / caught and logged)
Writable(c) == wsOpen[c] /\ ~wsFault[c]
SendMessage(open, frames, fr) == IF open THEN Append(frames, fr) ELSE frames

\* ------------------------------------------------------------------ tasks
NoResult == [response |-> Absent, transcript |-> Absent, audioBuffer |-> Absent, error |-> Absent]

NewTask(kind, c) ==
  [kind |-> kind, conn |-> c, pc |-> "done",
   userId |-> "", friendId |-> "", data |-> 0 - 1,
   csRef |-> 0, sessRef |-> 0, accepted |-> FALSE,
   transcript |-> Absent, enhanced |-> <<>>, userMessage |-> Absent,
   embSt |-> "idle", embedding |-> Absent, memSt |-> "idle", memory |-> <<>>,
   aborted |-> FALSE, aiResponse |-> Absent,
   ttsSt |-> "idle", tts |-> Absent, pushSt |-> "idle",
   bgUser |-> "idle", bgAi |-> "idle",   \* the two chains of storeVectorsInBackground
   caught |-> Absent, result |-> NoResult, frames |-> <<>>,
   raw |-> Absent,        \* the payload of a frame that is neither init nor audio
   genRaw |-> <<>>,       \* audio: <<result.response.text()>> once sendMessage resolved
   \* bookkeeping, read by no handler:
   sessMade |-> 0,        \* the Session object this handler's initializeSession constructed
   overlap |-> {},        \* handlers inside initializeSession for the same key when this one entered it
   initBefore |-> FALSE,  \* audio: a valid init of its connection had completed when it arrived
   during |-> {},         \* audio: earlier audios of its connection in progress on arrival, no init frame since
   initSince |-> FALSE,   \* audio: an init frame arrived on its connection after it was accepted
   sttThrew |-> FALSE,    \* audio: transcribeAudio threw
   ctxBefore |-> <<>>,    \* audio: the Session's context when the turn acquired it
   ctxAfter |-> <<>>,     \* audio: the Session's context when processCompleteAudio returned
   storeAfter |-> [ref |-> 0, context |-> <<>>],  \* audio: the store's Session of the key, then
   failed |-> {}]         \* audio: the provider calls of the turn that failed

TaskIds == 1..Len(tasks)
NInit   == Cardinality({i \in TaskIds : tasks[i].kind = "init"})
NAudio  == Cardinality({i \in TaskIds : tasks[i].kind = "audio"})
NOther  == Cardinality({i \in TaskIds : tasks[i].kind = "other"})

\* ------------------------------------------------------------------- Init
InitLogs == {<<>>, SeedLog(SeedLen)}

Init ==
  /\ wsOpen = [c \in Conns |-> TRUE]
  /\ wsFault = [c \in Conns |-> FALSE]
  /\ ClientInit
  /\ ApiInit
  /\ wsSessions = [c \in Conns |-> 0]
  /\ clientHeap = <<>>
  /\ sessions = [k \in SessionIds |-> 0]
  /\ sessionHeap = <<>>
  /\ chat = [u \in UserIds |-> <<>>]
  /\ tasks = <<>>

\* ------------------------------------------------------- gateway: init
\* initializeSession after `await getRecentChats`: the Session it constructs.
\* ok = FALSE: getRecentChats (or JSON.parse of an entry) threw, context = [].
NewSession(u, f, ok) ==
  [userId |-> u, friendId |-> f,
   context |-> IF ok THEN MapCtx(GetRecentChats(u)) ELSE <<>>]

\* sessions.set(sessionId, {...}) of initializeSession: always a fresh object
StoreSet(u, f) == [sessions EXCEPT ![SessionId(u, f)] = Len(sessionHeap) + 1]

\* the handlers that are inside initializeSession for the same key right now
PendingInits(u, f) ==
  {j \in TaskIds : /\ tasks[j].pc \in {"i_load", "p_load"}
                   /\ tasks[j].userId = u /\ tasks[j].friendId = f}

\* handleInit with the socket registered before initializeSession is awaited
HandleInitEager(c, u, f) ==
  /\ wsOpen[c]
  /\ LET t0 == [NewTask("init", c) EXCEPT !.userId = u, !.friendId = f]
         t  == IF ~Truthy(u) \/ ~Truthy(f)
               THEN [t0 EXCEPT !.frames = SendMessage(Writable(c), <<>>,
                                   ErrorFrame("userId and friendId are required", Absent))]
               ELSE [t0 EXCEPT !.pc = "i_load", !.overlap = PendingInits(u, f)]
         old == [j \in TaskIds |->
                  IF tasks[j].kind = "audio" /\ tasks[j].conn = c /\ tasks[j].accepted
                     /\ tasks[j].pc # "done"
                  THEN [tasks[j] EXCEPT !.initSince = TRUE] ELSE tasks[j]]
     IN /\ tasks' = Append(old, t)
        /\ IF ~Truthy(u) \/ ~Truthy(f)
           THEN UNCHANGED <<wsSessions, clientHeap>>
           ELSE /\ clientHeap' = Append(clientHeap, [userId |-> u, friendId |-> f,
                                    sessionId |-> SessionId(u, f), isProcessing |-> FALSE])
                /\ wsSessions' = [wsSessions EXCEPT ![c] = Len(clientHeap) + 1]
  /\ UNCHANGED <<clientVars, apiVars, wsOpen, wsFault, sessions, sessionHeap, chat>>

\* a handleInit that drops the socket's entry when the ids are missing
HandleInitResets(c, u, f) ==
  /\ wsOpen[c]
  /\ LET t0 == [NewTask("init", c) EXCEPT !.userId = u, !.friendId = f]
         t  == IF ~Truthy(u) \/ ~Truthy(f)
               THEN [t0 EXCEPT !.frames = SendMessage(Writable(c), <<>>,
                                   ErrorFrame("userId and friendId are required", Absent))]
               ELSE [t0 EXCEPT !.pc = "i_load", !.overlap = PendingInits(u, f)]
         old == [j \in TaskIds |->
                  IF tasks[j].kind = "audio" /\ tasks[j].conn = c /\ tasks[j].accepted
                     /\ tasks[j].pc # "done"
                  THEN [tasks[j] EXCEPT !.initSince = TRUE] ELSE tasks[j]]
     IN /\ tasks' = Append(old, t)
        /\ wsSessions' = IF ~Truthy(u) \/ ~Truthy(f)
                         THEN [wsSessions EXCEPT ![c] = 0] ELSE wsSessions
  /\ UNCHANGED <<clientVars, apiVars, wsOpen, wsFault, clientHeap, sessions, sessionHeap, chat>>

\* ws.on("message") -> case "init": handleInit up to `await initializeSession`
HandleInit(c, u, f) ==
  /\ wsOpen[c]
  /\ LET t0 == [NewTask("init", c) EXCEPT !.userId = u, !.friendId = f]
         t  == IF ~Truthy(u) \/ ~Truthy(f)
               THEN [t0 EXCEPT !.frames = SendMessage(Writable(c), <<>>,
                                   ErrorFrame("userId and friendId are required", Absent))]
               ELSE [t0 EXCEPT !.pc = "i_load", !.overlap = PendingInits(u, f)]
         \* bookkeeping: an init frame arrived while these audio turns were in flight
         old == [j \in TaskIds |->
                  IF tasks[j].kind = "audio" /\ tasks[j].conn = c /\ tasks[j].accepted
                     /\ tasks[j].pc # "done"
                  THEN [tasks[j] EXCEPT !.initSince = TRUE] ELSE tasks[j]]
     IN tasks' = Append(old, t)
  /\ UNCHANGED <<clientVars, apiVars, wsOpen, wsFault, wsSessions, clientHeap, sessions, sessionHeap, chat>>

\* getRecentChats settles: initializeSession stores a new Session and returns;
\* handleInit stores a new ClientSession for the socket and sends `ready`.
HandleInitResume(i, ok) ==
  /\ i \in TaskIds /\ tasks[i].kind = "init" /\ tasks[i].pc = "i_load"
  /\ LET t == tasks[i]
         sid == SessionId(t.userId, t.friendId)
     IN /\ sessionHeap' = Append(sessionHeap, NewSession(t.userId, t.friendId, ok))
        /\ sessions' = StoreSet(t.userId, t.friendId)
        /\ clientHeap' = Append(clientHeap, [userId |-> t.userId, friendId |-> t.friendId,
                             sessionId |-> sid, isProcessing |-> FALSE])
        /\ wsSessions' = [wsSessions EXCEPT ![t.conn] = Len(clientHeap) + 1]
        /\ tasks' = [tasks EXCEPT ![i] =
               [t EXCEPT !.pc = "done", !.sessMade = Len(sessionHeap) + 1, !.csRef = Len(clientHeap) + 1,
                         !.frames = SendMessage(Writable(t.conn), t.frames, ReadyFrame(sid))]]
  /\ UNCHANGED <<clientVars, apiVars, wsOpen, wsFault, chat>>

\* a cleanupSession that clears the whole store
CleanupSessionAll(u, f) == [k \in DOMAIN sessions |-> 0]

\* cleanupSession: sessions.delete(sessionId)
CleanupSession(u, f) == [sessions EXCEPT ![SessionId(u, f)] = 0]

\* ws.on("close") / ws.on("error"): handleDisconnection
HandleDisconnection(c) ==
  /\ wsOpen[c]
  /\ wsOpen' = [wsOpen EXCEPT ![c] = FALSE]
  /\ sessions' = IF wsSessions[c] # 0
                 THEN CleanupSession(clientHeap[wsSessions[c]].userId,
                                     clientHeap[wsSessions[c]].friendId)
                 ELSE sessions
  /\ wsSessions' = [wsSessions EXCEPT ![c] = 0]
  /\ UNCHANGED <<clientVars, apiVars, wsFault, clientHeap, sessionHeap, chat, tasks>>

\* the socket starts (or stops) failing its writes: ws.send throws
SocketFault(c) ==
  /\ wsOpen[c]
  /\ wsFault' = [wsFault EXCEPT ![c] = ~@]
  /\ UNCHANGED <<clientVars, apiVars, wsOpen, wsSessions, clientHeap, sessions, sessionHeap, chat, tasks>>

\* ------------------------------------------- gateway: any other frame
\* Payloads that decode to neither an init nor an audio message.
RawFrames == {"{bad", "null", "42", "{\"type\":\"ping\"}"}

\* JSON.parse(messageData.toString()) throws a SyntaxError
ParseThrows(raw) == raw = "{bad"

\* message.type: reading a property of null throws a TypeError; a number, a
\* string or an object without the property gives undefined
TypeReadThrows(raw) == raw = "null"

\* ws.on("message"): the try block falls to `default` (console.warn only)
\* unless JSON.parse or the read of message.type throws, which the catch
\* answers with "Invalid message format"
HandleOther(c, raw) ==
  /\ wsOpen[c]
  /\ LET t0 == [NewTask("other", c) EXCEPT !.raw = raw] IN
       tasks' = Append(tasks,
          IF ParseThrows(raw)
          THEN [t0 EXCEPT !.frames = SendMessage(Writable(c), <<>>,
                   ErrorFrame("Invalid message format", "Unexpected token in JSON"))]
          ELSE IF TypeReadThrows(raw)
          THEN [t0 EXCEPT !.frames = SendMessage(Writable(c), <<>>,
                   ErrorFrame("Invalid message format", "Cannot read properties of null (reading 'type')"))]
          ELSE t0)
  /\ UNCHANGED <<clientVars, apiVars, wsOpen, wsFault, wsSessions, clientHeap, sessions, sessionHeap, chat>>

\* ------------------------------------------------------------------ texts
\* Provider texts are character sequences, so that trim / includes / split act
\* on characters; Str is the string they denote.
RECURSIVE Str(_)
Str(s) == IF s = <<>> THEN "" ELSE s[1] \o Str(Tail(s))

RECURSIVE TrimL(_)
TrimL(s) == IF s # <<>> /\ s[1] = " " THEN TrimL(Tail(s)) ELSE s
RECURSIVE TrimR(_)
TrimR(s) == IF s # <<>> /\ s[Len(s)] = " " THEN TrimR(SubSeq(s, 1, Len(s) - 1)) ELSE s
\* String.prototype.trim
Trim(s) == TrimR(TrimL(s))

\* Array.prototype.join(" ")
RECURSIVE JoinSp(_)
JoinSp(l) == IF l = <<>> THEN <<>>
             ELSE IF Len(l) = 1 THEN l[1] ELSE l[1] \o <<" ">> \o JoinSp(Tail(l))

\* stt.ts 45-56: "" when there are no results, else the joined, trimmed alternatives
Transcription(results) == IF results = <<>> THEN <<>> ELSE Trim(JoinSp(results))

\* a normalisation that cuts after the last period
NormalizeReplyLastPeriod(raw) ==
  LET r == Trim(raw)
      dots == {k \in 1..Len(r) : r[k] = "."}
  IN IF dots # {} THEN SubSeq(r, 1, CHOOSE k \in dots : \A m \in dots : k >= m) ELSE r

\* gemini.ts 43-50: trim, then cut after the first period if there is one
NormalizeReply(raw) ==
  LET r == Trim(raw)
      dots == {k \in 1..Len(r) : r[k] = "."}
  IN IF dots # {} THEN SubSeq(r, 1, CHOOSE k \in dots : \A m \in dots : k <= m) ELSE r

\* gemini.ts 56-62
Fallbacks == << "I understand what you're saying.",
                "That's interesting, tell me more.",
                "I see your point.",
                "Thanks for sharing that with me.",
                "I'm listening." >>

ShortReply == "I didn't catch that. Could you please try again?"
ErrorReply == "I'm having trouble processing your audio right now. Please try again."

\* Buffer.from(data, 'base64').length for a string of n base64 characters (no padding)
DecodedLen(n) == (n \div 4) * 3 + (IF n % 4 = 2 THEN 1 ELSE IF n % 4 = 3 THEN 2 ELSE 0)

\* synthesizeSpeech(text) -> audio content ; Buffer.toString('base64')
Mp3(text)   == "mp3<" \o text \o ">"
Base64(buf) == "b64<" \o buf \o ">"

\* stt.ts 58-87: the Error transcribeAudio rethrows; code 0 = the caught error has no `code`
SttCodes == {0, 3, 8, 14, 16}
SttError(code) ==
  CASE code = 16 -> "Google Cloud authentication failed. Check your credentials."
    [] code = 3  -> "Invalid audio format or configuration."
    [] code = 8  -> "Google Cloud quota exceeded."
    [] code = 0  -> "Failed to transcribe audio"
    [] OTHER     -> "Google Cloud error: UNAVAILABLE"

\* ----------------------------------------------------------- input values
NoData     == 0 - 1                      \* message.data is not a string
AudioData  == {NoData, 0, 1332, 1334}    \* base64 lengths: 0, 999 and 1000 bytes
MemResults == { <<>>, <<Absent, "likes tea">> }
GenTexts   == { <<"o", "k">>, <<" ", "y", "o", ".", "n", "o", ".">> }

\* ------------------------------------------------------ gateway: audio turn
\* locals of a finished handler are gone; what it returned and sent is kept
Reset(t) == [t EXCEPT !.transcript = Absent, !.enhanced = <<>>, !.userMessage = Absent,
                      !.embSt = "idle", !.embedding = Absent, !.memSt = "idle", !.memory = <<>>,
                      !.aiResponse = Absent, !.ttsSt = "idle", !.tts = Absent,
                      !.pushSt = "idle", !.caught = Absent, !.genRaw = <<>>]

\* handleCompleteAudio 210-229: the frame sent for the pipeline's result
ResultFrame(res) ==
  IF Truthy(res.error)
  THEN ErrorFrame("Audio processing failed", res.error)
  ELSE ResponseFrame(res.response, res.transcript,
                     IF res.audioBuffer # Absent THEN Base64(res.audioBuffer) ELSE Absent)

\* a handler without the finally block
FinallyMissing(heap, ref) == heap

\* handleCompleteAudio 243-245: finally { session.isProcessing = false }
Finally(heap, ref) == [heap EXCEPT ![ref].isProcessing = FALSE]

\* bookkeeping: the Session the store holds under the key of turn t when the
\* turn returns, its own Session then having context ctx
StoreAfter(t, ctx) ==
  LET ref == sessions[SessionId(t.userId, t.friendId)]
  IN [ref |-> ref,
      context |-> IF ref = 0 THEN <<>>
                  ELSE IF ref = t.sessRef THEN ctx ELSE sessionHeap[ref].context]

\* a sendMessage without its try/catch: the exception of a failed write leaves
\* the handler before the flag is cleared
FinishSendRaises(i, t, res, ctx) ==
  /\ tasks' = [tasks EXCEPT ![i] =
         [Reset(t) EXCEPT !.pc = "done", !.result = res, !.ctxAfter = ctx,
                          !.storeAfter = StoreAfter(t, ctx),
                          !.frames = SendMessage(Writable(t.conn), t.frames, ResultFrame(res))]]
  /\ clientHeap' = IF Writable(t.conn) THEN Finally(clientHeap, t.csRef) ELSE clientHeap

\* processCompleteAudio returned res (its Session's context then being ctx):
\* the handler sends the frame and releases
Finish(i, t, res, ctx) ==
  /\ tasks' = [tasks EXCEPT ![i] =
         [Reset(t) EXCEPT !.pc = "done", !.result = res, !.ctxAfter = ctx,
                          !.storeAfter = StoreAfter(t, ctx),
                          !.frames = SendMessage(Writable(t.conn), t.frames, ResultFrame(res))]]
  /\ clientHeap' = Finally(clientHeap, t.csRef)

\* bookkeeping for HandleCompleteAudio
InitCompleted(c) ==
  \E j \in TaskIds : tasks[j].kind = "init" /\ tasks[j].conn = c /\ tasks[j].pc = "done"
                      /\ tasks[j].csRef # 0
InProgressSince(c) ==
  {j \in TaskIds : /\ tasks[j].kind = "audio" /\ tasks[j].conn = c /\ tasks[j].accepted
                   /\ tasks[j].pc # "done" /\ ~tasks[j].initSince}

\* handleCompleteAudio 170-178
NotInitialized(c) == wsSessions[c] = 0

\* handleCompleteAudio 180-188
AlreadyProcessing(c) == clientHeap[wsSessions[c]].isProcessing

\* transcribeAudio 9-43, up to `await client.recognize`, and what
\* processCompleteAudio does with an immediate outcome
TranscribeStart(t, bytes) ==
  IF bytes = 0
  THEN [t EXCEPT !.caught = SttError(0), !.pc = "p_err_tts", !.sttThrew = TRUE]
  ELSE IF bytes < MinAudioBytes
       THEN [t EXCEPT !.transcript = "", !.pc = "p_short_tts"]
       ELSE [t EXCEPT !.pc = "p_stt"]

\* ws.on("message") -> case "audio": handleCompleteAudio up to its first I/O await
HandleCompleteAudio(c, d) ==
  /\ wsOpen[c]
  /\ LET t0 == [NewTask("audio", c) EXCEPT !.data = d, !.initBefore = InitCompleted(c),
                                           !.during = InProgressSince(c)] IN
     IF NotInitialized(c)
     THEN /\ tasks' = Append(tasks, [t0 EXCEPT !.frames = SendMessage(Writable(c), <<>>,
                 ErrorFrame("Session not initialized. Please send init message first.", Absent))])
          /\ UNCHANGED <<clientHeap, sessions, sessionHeap>>
     ELSE IF AlreadyProcessing(c)
     THEN /\ tasks' = Append(tasks, [t0 EXCEPT !.csRef = wsSessions[c], !.frames = SendMessage(Writable(c), <<>>,
                 ErrorFrame("Already processing audio. Please wait for current request to complete.",
                            Absent))])
          /\ UNCHANGED <<clientHeap, sessions, sessionHeap>>
     ELSE LET s  == clientHeap[wsSessions[c]]
              t1 == [t0 EXCEPT !.csRef = wsSessions[c], !.accepted = TRUE,
                               !.userId = s.userId, !.friendId = s.friendId,
                               !.frames = SendMessage(Writable(c), <<>>, ProcessingFrame)]
              sid == SessionId(s.userId, s.friendId)
          IN IF d = NoData
             THEN \* Buffer.from throws: catch sends the error, finally releases
                  /\ tasks' = Append(tasks, [t1 EXCEPT !.frames = SendMessage(Writable(c), t1.frames,
                         ErrorFrame("Failed to process audio", "The first argument must be of type string"))])
                  /\ clientHeap' = Finally([clientHeap EXCEPT ![wsSessions[c]].isProcessing = TRUE], wsSessions[c])
                  /\ UNCHANGED <<sessions, sessionHeap>>
             ELSE /\ clientHeap' = [clientHeap EXCEPT ![wsSessions[c]].isProcessing = TRUE]
                  /\ tasks' = Append(tasks,
                        IF sessions[sid] = 0
                        THEN [t1 EXCEPT !.pc = "p_load", !.overlap = PendingInits(s.userId, s.friendId)]
                        ELSE TranscribeStart([t1 EXCEPT !.sessRef = sessions[sid],
                                                        !.ctxBefore = sessionHeap[sessions[sid]].context],
                                             DecodedLen(d)))
                  /\ UNCHANGED <<sessions, sessionHeap>>
  /\ UNCHANGED <<clientVars, apiVars, wsOpen, wsFault, wsSessions, chat>>

\* processCompleteAudio 47-51: its own initializeSession settles
ProcessAudioInitialized(i, ok) ==
  /\ i \in TaskIds /\ tasks[i].pc = "p_load"
  /\ LET t == tasks[i]
         new == NewSession(t.userId, t.friendId, ok)
     IN /\ sessionHeap' = Append(sessionHeap, new)
        /\ sessions' = StoreSet(t.userId, t.friendId)
        /\ tasks' = [tasks EXCEPT ![i] =
              TranscribeStart([t EXCEPT !.sessRef = Len(sessionHeap) + 1, !.sessMade = Len(sessionHeap) + 1,
                                        !.ctxBefore = new.context],
                              DecodedLen(t.data))]
  /\ UNCHANGED <<clientVars, apiVars, wsOpen, wsFault, wsSessions, clientHeap, chat>>

\* --------------------------------------------------- pipeline: stages 1-2
\* processCompleteAudio 129-139: the catch block, up to `await synthesizeSpeech(errorMessage)`
Catch(t, message) == [t EXCEPT !.caught = message, !.pc = "p_err_tts"]

\* bookkeeping: the provider call `call` of the turn failed when ok is FALSE
Failed(t, call, ok) == IF ok THEN t ELSE [t EXCEPT !.failed = @ \cup {call}]

\* redis rpush / ltrim of pushChat
Rpush(u, role, message) == [chat EXCEPT ![u] = Append(@, [role |-> role, message |-> message])]
Ltrim(u) == [chat EXCEPT ![u] = LastN(@, ChatCap)]

\* client.recognize settles (code = -1: it returned `results`)
PStt(i, code, results) ==
  /\ i \in TaskIds /\ tasks[i].pc = "p_stt"
  /\ LET t  == tasks[i]
         tr == Transcription(results)
     IN tasks' = [tasks EXCEPT ![i] =
          IF code # NoData
          THEN [Catch(t, SttError(code)) EXCEPT !.sttThrew = TRUE]
          ELSE IF tr = <<>> \/ Trim(tr) = <<>>
               THEN [t EXCEPT !.transcript = "", !.pc = "p_short_tts"]
               ELSE [t EXCEPT !.transcript = Str(tr), !.pc = "p_rpush_u"]]
  /\ UNCHANGED <<clientVars, apiVars, wsOpen, wsFault, wsSessions, clientHeap, sessions, sessionHeap, chat>>

\* a short-circuit that also logs its apology (pushChat(userId, "ai", ...))
PShortTtsLogs(i, ok) ==
  /\ i \in TaskIds /\ tasks[i].pc = "p_short_tts"
  /\ Finish(i, tasks[i], [response |-> ShortReply, transcript |-> "",
                          audioBuffer |-> IF ok THEN Mp3(ShortReply) ELSE Absent,
                          error |-> Absent],
            sessionHeap[tasks[i].sessRef].context)
  /\ chat' = Rpush(tasks[i].userId, "ai", ShortReply)
  /\ UNCHANGED <<clientVars, apiVars, wsOpen, wsFault, wsSessions, sessions, sessionHeap>>

\* processCompleteAudio 60-67: synthesizeSpeech of the "didn't catch that" reply settles
PShortTts(i, ok) ==
  /\ i \in TaskIds /\ tasks[i].pc = "p_short_tts"
  /\ Finish(i, tasks[i], [response |-> ShortReply, transcript |-> "",
                          audioBuffer |-> IF ok THEN Mp3(ShortReply) ELSE Absent,
                          error |-> Absent],
            sessionHeap[tasks[i].sessRef].context)
  /\ UNCHANGED <<clientVars, apiVars, wsOpen, wsFault, wsSessions, sessions, sessionHeap, chat>>

\* a catch block that returns the apology without the error detail
ErrorResultNoDetail(t, ok) ==
  [response |-> ErrorReply, transcript |-> "",
   audioBuffer |-> IF ok THEN Mp3(ErrorReply) ELSE Absent,
   error |-> Absent]

\* processCompleteAudio 134-139: synthesizeSpeech of the apology settles
ErrorResult(t, ok) ==
  [response |-> ErrorReply, transcript |-> "",
   audioBuffer |-> IF ok THEN Mp3(ErrorReply) ELSE Absent,
   error |-> t.caught]

PErrTts(i, ok) ==
  /\ i \in TaskIds /\ tasks[i].pc = "p_err_tts"
  /\ Finish(i, tasks[i], ErrorResult(tasks[i], ok), sessionHeap[tasks[i].sessRef].context)
  /\ UNCHANGED <<clientVars, apiVars, wsOpen, wsFault, wsSessions, sessions, sessionHeap, chat>>

\* processCompleteAudio 72: await pushChat(userId, "user", transcript) -- rpush settles
PRpushU(i, ok) ==
  /\ i \in TaskIds /\ tasks[i].pc = "p_rpush_u"
  /\ LET t == tasks[i] IN
       IF ok
       THEN /\ chat' = Rpush(t.userId, "user", t.transcript)
            /\ tasks' = [tasks EXCEPT ![i].pc = "p_ltrim_u"]
       ELSE /\ chat' = chat
            /\ tasks' = [tasks EXCEPT ![i] = Catch(Failed(t, "pushU", ok), "redis: rpush failed")]
  /\ UNCHANGED <<clientVars, apiVars, wsOpen, wsFault, wsSessions, clientHeap, sessions, sessionHeap>>

\* ... ltrim settles; then both calls of fan-out A are started
PLtrimU(i, ok) ==
  /\ i \in TaskIds /\ tasks[i].pc = "p_ltrim_u"
  /\ LET t == tasks[i] IN
       IF ok
       THEN /\ chat' = Ltrim(t.userId)
            /\ tasks' = [tasks EXCEPT ![i] =
                  [t EXCEPT !.pc = "p_fanA", !.embSt = "pending", !.memSt = "pending"]]
       ELSE /\ chat' = chat
            /\ tasks' = [tasks EXCEPT ![i] = Catch(Failed(t, "pushU", ok), "redis: ltrim failed")]
  /\ UNCHANGED <<clientVars, apiVars, wsOpen, wsFault, wsSessions, clientHeap, sessions, sessionHeap>>

\* --------------------------------------------------- pipeline: stages 3-5
\* typeof v === "string"
IsText(v) == v # Absent
FilterText(l) == SelectSeq(l, IsText)

\* an enhanced context that puts the recalled snippets before the history
EnhancedContextMemoryFirst(context, longTermMemory, transcript) ==
  FilterText(longTermMemory \o context \o <<CtxLine("user", transcript)>>)

\* processCompleteAudio 88-92
EnhancedContext(context, longTermMemory, transcript) ==
  FilterText(context \o longTermMemory \o <<CtxLine("user", transcript)>>)

\* a fan-out A that proceeds as soon as either call has settled (Promise.race)
JoinAEager(t) ==
  IF t.embSt = "done" \/ t.memSt = "done"
  THEN [t EXCEPT !.enhanced = EnhancedContext(sessionHeap[t.sessRef].context, t.memory, t.transcript),
                 !.userMessage = t.transcript, !.pc = "p_gen"]
  ELSE t

\* Promise.all of fan-out A resolved: compose the context and call generateResponse
JoinA(t) ==
  IF t.embSt = "done" /\ t.memSt = "done"
  THEN [t EXCEPT !.enhanced = EnhancedContext(sessionHeap[t.sessRef].context, t.memory, t.transcript),
                 !.userMessage = t.transcript, !.pc = "p_gen"]
  ELSE t

\* getEmbedding settles ([] on its internal failure)
EmbedSettle(i, ok) ==
  /\ i \in TaskIds /\ tasks[i].pc = "p_fanA" /\ tasks[i].embSt = "pending"
  /\ tasks' = [tasks EXCEPT ![i] =
        JoinA([Failed(tasks[i], "embed", ok) EXCEPT
                 !.embSt = "done", !.embedding = IF ok THEN <<1>> ELSE <<>>])]
  /\ UNCHANGED <<clientVars, apiVars, wsOpen, wsFault, wsSessions, clientHeap, sessions, sessionHeap, chat>>

\* searchMemory(userId, []) without its .catch: a failure rejects Promise.all
RecallSettleUncaught(i, ok, snippets) ==
  /\ i \in TaskIds /\ tasks[i].pc = "p_fanA" /\ tasks[i].memSt = "pending"
  /\ tasks' = [tasks EXCEPT ![i] =
        IF ok
        THEN JoinA([tasks[i] EXCEPT !.memSt = "done", !.memory = snippets])
        ELSE Catch(Failed(tasks[i], "recall", ok), "pinecone: query failed")]
  /\ UNCHANGED <<clientVars, apiVars, wsOpen, wsFault, wsSessions, clientHeap, sessions, sessionHeap, chat>>

\* searchMemory(userId, []) settles (failure -> [])
RecallSettle(i, ok, snippets) ==
  /\ i \in TaskIds /\ tasks[i].pc = "p_fanA" /\ tasks[i].memSt = "pending"
  /\ tasks' = [tasks EXCEPT ![i] =
        JoinA([Failed(tasks[i], "recall", ok) EXCEPT
                 !.memSt = "done", !.memory = IF ok THEN snippets ELSE <<>>])]
  /\ UNCHANGED <<clientVars, apiVars, wsOpen, wsFault, wsSessions, clientHeap, sessions, sessionHeap, chat>>

\* gemini.ts 27-28: the 15 s timer fires: controller.abort(); the signal is not
\* passed to chat.sendMessage, so the pending call is not affected
GenTimer(i) ==
  /\ i \in TaskIds /\ tasks[i].pc = "p_gen" /\ ~tasks[i].aborted
  /\ tasks' = [tasks EXCEPT ![i].aborted = TRUE]
  /\ UNCHANGED <<clientVars, apiVars, wsOpen, wsFault, wsSessions, clientHeap, sessions, sessionHeap, chat>>

\* generateResponse returned aiResponse: start fan-out B.  The three calls of
\* the Promise.all array are made at once; storeVectorsInBackground starts its
\* two chains and returns without awaiting them.
StartFanB(t, aiResponse) ==
  [t EXCEPT !.aiResponse = aiResponse, !.pc = "p_fanB", !.ttsSt = "pending", !.pushSt = "rpush",
            !.bgUser = IF Len(t.embedding) > 0 THEN "store" ELSE "skipped",
            !.bgAi = "embed"]

\* generateResponse without its catch block: a provider error is rethrown
PGenNoFallback(i, ok, raw, k) ==
  /\ i \in TaskIds /\ tasks[i].pc = "p_gen"
  /\ tasks' = [tasks EXCEPT ![i] =
        IF ok
        THEN StartFanB([tasks[i] EXCEPT !.genRaw = <<raw>>], Str(NormalizeReply(raw)))
        ELSE Catch(Failed(tasks[i], "gen", ok), "gemini: request failed")]
  /\ UNCHANGED <<clientVars, apiVars, wsOpen, wsFault, wsSessions, clientHeap, sessions, sessionHeap, chat>>

\* chat.sendMessage settles: ok -> normalised text, else a random fallback
PGen(i, ok, raw, k) ==
  /\ i \in TaskIds /\ tasks[i].pc = "p_gen"
  /\ tasks' = [tasks EXCEPT ![i] =
        StartFanB([Failed(tasks[i], "gen", ok) EXCEPT !.genRaw = IF ok THEN <<raw>> ELSE <<>>],
                  IF ok THEN Str(NormalizeReply(raw)) ELSE Fallbacks[k])]
  /\ UNCHANGED <<clientVars, apiVars, wsOpen, wsFault, wsSessions, clientHeap, sessions, sessionHeap, chat>>

\* --------------------------------------------------- pipeline: stages 6-8
\* a history update that keeps the oldest ten entries (slice(0, 10))
UpdateContextHead(context, transcript, aiResponse) ==
  LET all == context \o <<CtxLine("user", transcript), CtxLine("ai", aiResponse)>>
  IN IF Len(all) <= ContextCap THEN all ELSE SubSeq(all, 1, ContextCap)

\* processCompleteAudio 115-119
UpdateContext(context, transcript, aiResponse) ==
  LastN(context \o <<CtxLine("user", transcript), CtxLine("ai", aiResponse)>>, ContextCap)

\* a fan-out B whose Promise.all also waits for the background store
JoinBAwaitsStore(i, t) ==
  IF t.ttsSt = "done" /\ t.pushSt = "done" /\ t.bgUser \in {"skipped", "stored"} /\ t.bgAi = "stored"
  THEN /\ sessionHeap' = [sessionHeap EXCEPT ![t.sessRef].context = UpdateContext(@, t.transcript, t.aiResponse)]
       /\ Finish(i, t, [response |-> t.aiResponse, transcript |-> t.transcript,
                        audioBuffer |-> t.tts, error |-> Absent],
                 UpdateContext(sessionHeap[t.sessRef].context, t.transcript, t.aiResponse))
  ELSE /\ tasks' = [tasks EXCEPT ![i] = t]
       /\ UNCHANGED <<sessionHeap, clientHeap>>

\* Promise.all of fan-out B resolved: update the session, return, send, release
JoinB(i, t) ==
  IF t.ttsSt = "done" /\ t.pushSt = "done"
  THEN /\ sessionHeap' = [sessionHeap EXCEPT ![t.sessRef].context = UpdateContext(@, t.transcript, t.aiResponse)]
       /\ Finish(i, t, [response |-> t.aiResponse, transcript |-> t.transcript,
                        audioBuffer |-> t.tts, error |-> Absent],
                 UpdateContext(sessionHeap[t.sessRef].context, t.transcript, t.aiResponse))
  ELSE /\ tasks' = [tasks EXCEPT ![i] = t]
       /\ UNCHANGED <<sessionHeap, clientHeap>>

\* synthesizeSpeech(aiResponse) settles (failure -> null)
TtsSettle(i, ok) ==
  /\ i \in TaskIds /\ tasks[i].pc = "p_fanB" /\ tasks[i].ttsSt = "pending"
  /\ JoinB(i, [Failed(tasks[i], "tts", ok) EXCEPT
                  !.ttsSt = "done", !.tts = IF ok THEN Mp3(tasks[i].aiResponse) ELSE Absent])
  /\ UNCHANGED <<clientVars, apiVars, wsOpen, wsFault, wsSessions, sessions, chat>>

\* pushChat(userId, "ai", aiResponse): rpush settles (failure is caught and logged)
PushAiRpush(i, ok) ==
  /\ i \in TaskIds /\ tasks[i].pc = "p_fanB" /\ tasks[i].pushSt = "rpush"
  /\ chat' = IF ok THEN Rpush(tasks[i].userId, "ai", tasks[i].aiResponse) ELSE chat
  /\ JoinB(i, [Failed(tasks[i], "pushAi", ok) EXCEPT !.pushSt = IF ok THEN "ltrim" ELSE "done"])
  /\ UNCHANGED <<clientVars, apiVars, wsOpen, wsFault, wsSessions, sessions>>

\* ... ltrim settles
PushAiLtrim(i, ok) ==
  /\ i \in TaskIds /\ tasks[i].pc = "p_fanB" /\ tasks[i].pushSt = "ltrim"
  /\ chat' = IF ok THEN Ltrim(tasks[i].userId) ELSE chat
  /\ JoinB(i, [Failed(tasks[i], "pushAi", ok) EXCEPT !.pushSt = "done"])
  /\ UNCHANGED <<clientVars, apiVars, wsOpen, wsFault, wsSessions, sessions>>

\* ------------------------------------------ stage 6: background store
\* storeVectorsInBackground 149-159.  Nothing awaits these calls; a failure is
\* logged by the .catch of its chain.
\* storeVector(userId, userMessage, embedding) settles
BgStoreUser(i, ok) ==
  /\ i \in TaskIds /\ tasks[i].bgUser = "store"
  /\ tasks' = [tasks EXCEPT ![i].bgUser = IF ok THEN "stored" ELSE "failed"]
  /\ UNCHANGED <<clientVars, apiVars, wsOpen, wsFault, wsSessions, clientHeap, sessions, sessionHeap, chat>>

\* getEmbedding(aiResponse) settles ([] on its internal failure), then storeVector is called
BgEmbedAi(i, ok) ==
  /\ i \in TaskIds /\ tasks[i].bgAi = "embed"
  /\ tasks' = [tasks EXCEPT ![i].bgAi = "store"]
  /\ UNCHANGED <<clientVars, apiVars, wsOpen, wsFault, wsSessions, clientHeap, sessions, sessionHeap, chat>>

\* storeVector(userId, aiResponse, responseEmbedding) settles
BgStoreAi(i, ok) ==
  /\ i \in TaskIds /\ tasks[i].bgAi = "store"
  /\ tasks' = [tasks EXCEPT ![i].bgAi = IF ok THEN "stored" ELSE "failed"]
  /\ UNCHANGED <<clientVars, apiVars, wsOpen, wsFault, wsSessions, clientHeap, sessions, sessionHeap, chat>>

Background(i, P) ==
  \/ \E ok \in P.oks : BgStoreUser(i, ok)
  \/ \E ok \in P.oks : BgEmbedAi(i, ok)
  \/ \E ok \in P.oks : BgStoreAi(i, ok)

\* ------------------------------------------------------------------- Next
\* What the providers may answer in a run: a record of sets.
\*   oks    outcomes of getRecentChats, rpush, ltrim, embedContent, query, synthesizeSpeech
\*   codes  error codes client.recognize may fail with (0: an error without a code)
\*   results, gens, mems   what recognize, sendMessage and query may return
\*   fallbacks  the indices Math.random may pick
SttResult(kind, i) ==
  CASE kind = "none"  -> <<>>
    [] kind = "blank" -> << <<" ">> >>
    [] OTHER          -> << <<"t", ToString(i)>> >>

Settle(i, P) ==
  \/ \E ok \in P.oks : HandleInitResume(i, ok)
  \/ \E ok \in P.oks : ProcessAudioInitialized(i, ok)
  \/ \E o \in ({[code |-> c, kind |-> "none"] : c \in P.codes}
               \cup {[code |-> NoData, kind |-> k] : k \in P.results}) :
        PStt(i, o.code, SttResult(o.kind, i))
  \/ \E ok \in P.oks : PShortTts(i, ok)
  \/ \E ok \in P.oks : PErrTts(i, ok)
  \/ \E ok \in P.oks : PRpushU(i, ok)
  \/ \E ok \in P.oks : PLtrimU(i, ok)
  \/ \E ok \in P.oks : EmbedSettle(i, ok)
  \/ \E ok \in P.oks, m \in P.mems : RecallSettle(i, ok, m)
  \/ \E g \in ({[ok |-> TRUE, raw |-> r, k |-> 1] : r \in P.gens}
               \cup {[ok |-> FALSE, raw |-> <<>>, k |-> k] : k \in P.fallbacks}) :
        PGen(i, g.ok, g.raw, g.k)
  \/ \E ok \in P.oks : TtsSettle(i, ok)
  \/ \E ok \in P.oks : PushAiRpush(i, ok)
  \/ \E ok \in P.oks : PushAiLtrim(i, ok)

\* Gateway concurrency: two connections, any interleaving of frames, closes and
\* settling provider calls; the providers answer (one answer each).
Happy == [oks |-> {TRUE}, codes |-> {}, results |-> {"text"}, mems |-> { <<>> },
          gens |-> { <<"o", "k">> }, fallbacks |-> {}]

Next ==
  \/ \E c \in Conns, u \in UserIds \cup {""}, f \in FriendIds :
        NInit < MaxInit /\ HandleInit(c, u, f)
  \/ \E c \in Conns, d \in {1334} : NAudio < MaxAudio /\ HandleCompleteAudio(c, d)
  \/ \E c \in Conns : HandleDisconnection(c)
  \/ \E i \in TaskIds : Settle(i, Happy)

Spec == Init /\ [][Next]_vars

\* One connection, every provider outcome: a turn in full detail, with a chat
\* log that may already hold entries when the server starts.
AllOutcomes == [oks |-> BOOLEAN, codes |-> SttCodes, results |-> {"none", "blank", "text"},
                mems |-> MemResults, gens |-> GenTexts, fallbacks |-> 1..Len(Fallbacks)]

InitTurn ==
  /\ wsOpen = [c \in Conns |-> TRUE]
  /\ wsFault = [c \in Conns |-> FALSE]
  /\ ClientInit
  /\ ApiInit
  /\ wsSessions = [c \in Conns |-> 0]
  /\ clientHeap = <<>>
  /\ sessions = [k \in SessionIds |-> 0]
  /\ sessionHeap = <<>>
  /\ chat \in [UserIds -> InitLogs]
  /\ tasks = <<>>

NextTurn ==
  \/ \E u \in UserIds, f \in FriendIds : NInit < TurnInits /\ HandleInit("c1", u, f)
  \/ \E d \in AudioData : NAudio < TurnAudios /\ HandleCompleteAudio("c1", d)
  \/ HandleDisconnection("c1")
  \/ \E i \in TaskIds : Settle(i, AllOutcomes)
  \/ \E i \in TaskIds : GenTimer(i)
  \/ \E i \in TaskIds : Background(i, AllOutcomes)

SpecTurn == InitTurn /\ [][NextTurn]_vars

\* ... where every awaited provider call that was started eventually settles
\* (the calls of the background store may stay pending for ever)
TurnTasks == 1..(TurnInits + TurnAudios)
SpecTurnLive == SpecTurn /\ \A i \in TurnTasks : WF_vars(Settle(i, AllOutcomes))

\* The chat log at its cap: the turn of SpecTurn, started with a Short-Term
\* Chat Log that already holds 99 or 100 entries.
FullLogs == {SeedLog(ChatCap - 1), SeedLog(ChatCap)}

InitChat ==
  /\ wsOpen = [c \in Conns |-> TRUE]
  /\ wsFault = [c \in Conns |-> FALSE]
  /\ ClientInit
  /\ ApiInit
  /\ wsSessions = [c \in Conns |-> 0]
  /\ clientHeap = <<>>
  /\ sessions = [k \in SessionIds |-> 0]
  /\ sessionHeap = <<>>
  /\ chat \in [UserIds -> FullLogs]
  /\ tasks = <<>>

SpecChat == InitChat /\ [][NextTurn]_vars

\* Best-effort sends: one connection that may close, and whose writes may
\* throw, at any point of its init and its turn.
Plain == [oks |-> BOOLEAN, codes |-> {0}, results |-> {"none", "text"}, mems |-> { <<>> },
          gens |-> { <<"o", "k">> }, fallbacks |-> {1}]

NextSend ==
  \/ \E u \in UserIds, f \in FriendIds : NInit < TurnInits /\ HandleInit("c1", u, f)
  \/ \E d \in {NoData, 1334} : NAudio < TurnAudios /\ HandleCompleteAudio("c1", d)
  \/ HandleDisconnection("c1")
  \/ SocketFault("c1")
  \/ \E i \in TaskIds : Settle(i, Plain)

SpecSend == Init /\ [][NextSend]_vars
SpecSendLive == SpecSend /\ \A i \in TurnTasks : WF_vars(Settle(i, Plain))

\* --------------------------------------------------- specification: replies
\* One connection, one turn; the provider's reply is any text of at most MaxLen
\* characters over a letter, the period and the space.
ReplyChars == {"a", ".", " "}
ReplyTexts == UNION {[1..n -> ReplyChars] : n \in 0..MaxLen}
Replies == [Happy EXCEPT !.gens = ReplyTexts]

NextReply ==
  \/ \E u \in UserIds, f \in FriendIds : NInit < TurnInits /\ HandleInit("c1", u, f)
  \/ NAudio < TurnAudios /\ HandleCompleteAudio("c1", 1334)
  \/ HandleDisconnection("c1")
  \/ \E i \in TaskIds : Settle(i, Replies)

SpecReply == Init /\ [][NextReply]_vars

\* ------------------------------------------------ specification: histories
\* Seeded chat logs, two connections and inits that create several Session
\* objects before and during a turn; every provider call succeeds.
NextHistory ==
  \/ \E c \in Conns, u \in UserIds, f \in FriendIds : NInit < MaxInit /\ HandleInit(c, u, f)
  \/ \E c \in Conns : NAudio < TurnAudios /\ HandleCompleteAudio(c, 1334)
  \/ \E c \in Conns : HandleDisconnection(c)
  \/ \E i \in TaskIds : Settle(i, Happy)

SpecHistory == InitTurn /\ [][NextHistory]_vars

\* Several (userId, friendId) pairs: two connections that initialise with any
\* of three pairs, two of which contain the separator of the store key.
Pairs     == { <<"a-b", "c">>, <<"a", "b-c">>, <<"a", "c">> }
PairUsers == {p[1] : p \in Pairs}
PairKeys  == {SessionId(p[1], p[2]) : p \in Pairs}

InitPairs ==
  /\ wsOpen = [c \in Conns |-> TRUE]
  /\ wsFault = [c \in Conns |-> FALSE]
  /\ ClientInit
  /\ ApiInit
  /\ wsSessions = [c \in Conns |-> 0]
  /\ clientHeap = <<>>
  /\ sessions = [k \in PairKeys |-> 0]
  /\ sessionHeap = <<>>
  /\ chat = [u \in PairUsers |-> <<>>]
  /\ tasks = <<>>

NextPairs ==
  \/ \E c \in Conns, p \in Pairs : NInit < MaxInit /\ HandleInit(c, p[1], p[2])
  \/ \E c \in Conns : NAudio < TurnAudios /\ HandleCompleteAudio(c, 1334)
  \/ \E c \in Conns : HandleDisconnection(c)
  \/ \E i \in TaskIds : Settle(i, Happy)

SpecPairs == InitPairs /\ [][NextPairs]_vars

\* Init frames with missing or empty ids, before, between and during a valid
\* init and a turn of one connection.
InitIds(ids) == ids \cup {"", Absent}
NextInvalid ==
  \/ \E u \in InitIds(UserIds), f \in InitIds(FriendIds) : NInit < MaxInit /\ HandleInit("c1", u, f)
  \/ NAudio < TurnAudios /\ HandleCompleteAudio("c1", 1334)
  \/ HandleDisconnection("c1")
  \/ \E i \in TaskIds : Settle(i, Happy)

SpecInvalid == Init /\ [][NextInvalid]_vars

\* The decode boundary: one connection that also receives frames that are
\* neither init nor audio, between and during its init and its turn.
NextDecode ==
  \/ \E u \in UserIds, f \in FriendIds : NInit < TurnInits /\ HandleInit("c1", u, f)
  \/ \E d \in {NoData, 1334} : NAudio < TurnAudios /\ HandleCompleteAudio("c1", d)
  \/ \E raw \in RawFrames : NOther < MaxOther /\ HandleOther("c1", raw)
  \/ HandleDisconnection("c1")
  \/ \E i \in TaskIds : Settle(i, Happy)

SpecDecode == Init /\ [][NextDecode]_vars

\* ============================================ the client (frontend ws.ts)
\* A promise the client returned.  o1 and o2 are the handlers its one-shot
\* wrappers saved (originalOnReady / originalOnResponse, originalOnError).
\* src, sock and ack are bookkeeping: the request whose frame settled the
\* promise (0 = no frame of a request), the socket its frame was written to,
\* and whether a ready frame had been received on that socket by then.
NewPromise(kind) ==
  [kind |-> kind, st |-> "pending", by |-> "none", timer |-> "none", sock |-> 0,
   o1 |-> 0, o2 |-> 0, pc |-> "run", src |-> 0, ack |-> TRUE]

\* new WebSocket(url), with the gateway's side of the connection: inq = frames
\* the client wrote that the gateway has not handled yet, cs = the number of
\* ClientSession objects the gateway has stored for this socket (0 = no
\* entry), run = its handlers that are awaiting ([req, kind, cs]: the request,
\* and for an audio the ClientSession it marked busy), out = frames the
\* gateway wrote that the client has not received yet.  readySeen is
\* bookkeeping: a ready frame was received on this socket.
NewSocket(k) ==
  [readyState |-> "CONNECTING", failed |-> FALSE, promise |-> k, readySeen |-> FALSE,
   inq |-> <<>>, cs |-> 0, run |-> {}, out |-> <<>>]

\* socket.send(frame of request k): the frame reaches the gateway only from an
\* open socket
Send(ss, s, k) ==
  IF s # 0 /\ ss[s].readyState = "OPEN" THEN [ss EXCEPT ![s].inq = Append(@, k)] ELSE ss

PromiseIds == 1..Len(promises)
NConnect == Cardinality({k \in PromiseIds : promises[k].kind = "connect"})
NInitP   == Cardinality({k \in PromiseIds : promises[k].kind = "init"})
NSend    == Cardinality({k \in PromiseIds : promises[k].kind = "audio"})

\* resolve(...) / reject(...): only the first settlement of a promise counts
Settled(p, st, by) == IF p.st = "pending" THEN [p EXCEPT !.st = st, !.by = by] ELSE p
\* clearTimeout(timeoutId)
ClearTimeout(p) == IF p.timer = "armed" THEN [p EXCEPT !.timer = "cleared"] ELSE p

\* WebSocket.close(): a connecting socket fails its connection (its error event
\* is fired before its close event), an open one starts the closing handshake
Close(ss, s) ==
  IF ss[s].readyState = "CONNECTING"
  THEN [ss EXCEPT ![s].readyState = "CLOSING", ![s].failed = TRUE]
  ELSE IF ss[s].readyState = "OPEN" THEN [ss EXCEPT ![s].readyState = "CLOSING"] ELSE ss

\* Calling the handler `ref` for event ev ("ready", "response" or "error") in
\* h = [eh: eventHandlers, ps: promises].  The wrapper of promise ref clears its
\* timer, restores both slots it replaced, settles its promise and calls the
\* handler it saved (ws.ts 156-174, 241-259).
\* cause is bookkeeping: the request the frame answers.
RECURSIVE Invoke(_, _, _, _)
Invoke(h, ev, ref, cause) ==
  IF ref = 0 THEN h
  ELSE LET p == h.ps[ref]
           slot == IF p.kind = "init" THEN "onReady" ELSE "onResponse"
           q == Settled(ClearTimeout(p), IF ev = "error" THEN "rejected" ELSE "resolved", ev)
           h1 == [eh |-> [h.eh EXCEPT ![slot] = p.o1, !.onError = p.o2],
                  ps |-> [h.ps EXCEPT ![ref] =
                            IF p.st = "pending" THEN [q EXCEPT !.src = cause] ELSE q]]
       IN Invoke(h1, ev, IF ev = "error" THEN p.o2 ELSE p.o1, cause)

\* connectWS 29-91
ConnectWS ==
  /\ eventHandlers' = [onReady |-> 0, onResponse |-> 0, onError |-> 0]
  /\ IF connectionPromise # 0
     THEN UNCHANGED <<socket, connectionPromise, sockets, promises>>
     ELSE /\ LET k == Len(promises) + 1
                 s == Len(sockets) + 1
                 old == IF socket # 0 /\ sockets[socket].readyState # "CLOSED"
                        THEN Close(sockets, socket) ELSE sockets
             IN /\ sockets' = Append(old, NewSocket(k))
                /\ socket' = s
                /\ promises' = Append(promises, [NewPromise("connect") EXCEPT
                                                   !.timer = "armed", !.sock = s])
                /\ connectionPromise' = k
  /\ UNCHANGED <<isSessionReady, received>>
  /\ UNCHANGED <<serverVars, apiVars>>

\* connectWS 45-50: the 5 s timer
ConnectTimeout(k) ==
  /\ k \in PromiseIds /\ promises[k].kind = "connect" /\ promises[k].timer = "armed"
  /\ IF socket # 0 /\ sockets[socket].readyState = "CONNECTING"
     THEN /\ sockets' = Close(sockets, socket)
          /\ promises' = [promises EXCEPT ![k] = Settled([@ EXCEPT !.timer = "fired"],
                                                         "rejected", "timeout")]
     ELSE /\ sockets' = sockets
          /\ promises' = [promises EXCEPT ![k].timer = "fired"]
  /\ UNCHANGED <<socket, isSessionReady, connectionPromise, eventHandlers, received>>
  /\ UNCHANGED <<serverVars, apiVars>>

\* socket.onopen 52-57
SockOpen(s) ==
  /\ s \in DOMAIN sockets /\ sockets[s].readyState = "CONNECTING"
  /\ sockets' = [sockets EXCEPT ![s].readyState = "OPEN"]
  /\ promises' = [promises EXCEPT ![sockets[s].promise] =
                    Settled(ClearTimeout(@), "resolved", "open")]
  /\ UNCHANGED <<socket, isSessionReady, connectionPromise, eventHandlers, received>>
  /\ UNCHANGED <<serverVars, apiVars>>

\* a socket.onerror that does not reject
OnErrorNoReject(h, k) ==
  Invoke([h EXCEPT !.ps[k] = ClearTimeout(@)], "error", h.eh.onError, 0)

\* socket.onerror 78-87 of the socket of promise k (connectionPromise = null is
\* in SocketClosed)
OnError(h, k) ==
  LET h1 == Invoke([h EXCEPT !.ps[k] = ClearTimeout(@)], "error", h.eh.onError, 0)
  IN [h1 EXCEPT !.ps[k] = Settled(@, "rejected", "socket error")]

\* socket.onclose 59-65 (isSessionReady, connectionPromise are in SocketClosed)
OnClose(h, k) == [h EXCEPT !.ps[k] = ClearTimeout(@)]

\* The task that closes socket s: readyState becomes CLOSED, the error event is
\* fired if the connection failed, then the close event.
SocketClosed(s, err) ==
  LET k == sockets[s].promise
      h0 == [eh |-> eventHandlers, ps |-> promises]
      h1 == OnClose(IF err THEN OnError(h0, k) ELSE h0, k)
  IN /\ sockets' = [sockets EXCEPT ![s].readyState = "CLOSED"]
     /\ eventHandlers' = h1.eh
     /\ promises' = h1.ps
     /\ isSessionReady' = FALSE
     /\ connectionPromise' = 0
     /\ UNCHANGED <<socket, received>>
     /\ UNCHANGED <<serverVars, apiVars>>

\* a socket that close() was called on finishes closing
CloseCompletes(s) ==
  /\ s \in DOMAIN sockets /\ sockets[s].readyState = "CLOSING"
  /\ \E err \in (IF sockets[s].failed THEN {TRUE} ELSE BOOLEAN) : SocketClosed(s, err)

\* the connection attempt fails, the network drops, or the server closes
SockDrops(s) ==
  /\ s \in DOMAIN sockets /\ sockets[s].readyState \in {"CONNECTING", "OPEN"}
  /\ \E err \in (IF sockets[s].readyState = "CONNECTING" THEN {TRUE} ELSE BOOLEAN) :
        SocketClosed(s, err)

\* socket.onmessage 67-76 and handleMessage 93-136 for a frame of the given type
ServerFrames == {"ready", "processing", "response", "error"}
HandleMessage(type, cause) ==
  /\ LET h0 == [eh |-> eventHandlers, ps |-> promises]
         h1 == IF type = "ready" THEN Invoke(h0, "ready", eventHandlers.onReady, cause)
               ELSE IF type = "response" THEN Invoke(h0, "response", eventHandlers.onResponse, cause)
               ELSE IF type = "error" THEN Invoke(h0, "error", eventHandlers.onError, cause)
               ELSE h0
     IN /\ eventHandlers' = h1.eh
        /\ promises' = h1.ps
  /\ isSessionReady' = (IF type = "ready" THEN TRUE ELSE isSessionReady)

\* bookkeeping of a received frame
Seen(ss, s, type) == IF type = "ready" THEN [ss EXCEPT ![s].readySeen = TRUE] ELSE ss

\* a frame of the given type arrives from a server that may send anything (a
\* message event is fired only while the socket is OPEN)
Deliver(s, type) ==
  /\ s \in DOMAIN sockets /\ sockets[s].readyState = "OPEN"
  /\ received < MaxRecv
  /\ received' = received + 1
  /\ HandleMessage(type, 0)
  /\ sockets' = Seen(sockets, s, type)
  /\ UNCHANGED <<socket, connectionPromise>>
  /\ UNCHANGED <<serverVars, apiVars>>

\* initializeSession 138-185
InitializeSession ==
  /\ NInitP < TurnInits
  /\ LET k == Len(promises) + 1 IN
       IF socket = 0 \/ sockets[socket].readyState # "OPEN"
       THEN /\ promises' = Append(promises, Settled(NewPromise("init"), "rejected", "not connected"))
            /\ eventHandlers' = eventHandlers
            /\ sockets' = sockets
       ELSE /\ promises' = Append(promises, [NewPromise("init") EXCEPT
                                 !.timer = "armed", !.pc = "sent", !.sock = socket,
                                 !.o1 = eventHandlers.onReady, !.o2 = eventHandlers.onError])
            /\ eventHandlers' = [eventHandlers EXCEPT !.onReady = k, !.onError = k]
            /\ sockets' = Send(sockets, socket, k)
  /\ UNCHANGED <<socket, isSessionReady, connectionPromise, received>>
  /\ UNCHANGED <<serverVars, apiVars>>

\* the timer callback of a request (149-154, 235-239): restore both slots, reject
RequestTimeout(k, slot) ==
  /\ promises[k].timer = "armed"
  /\ eventHandlers' = [eventHandlers EXCEPT ![slot] = promises[k].o1, !.onError = promises[k].o2]
  /\ promises' = [promises EXCEPT ![k] = Settled([@ EXCEPT !.timer = "fired"], "rejected", "timeout")]
  /\ UNCHANGED <<socket, isSessionReady, connectionPromise, sockets, received>>
  /\ UNCHANGED <<serverVars, apiVars>>

\* initializeSession 149-154: the 10 s timer
InitTimeout(k) ==
  /\ k \in PromiseIds /\ promises[k].kind = "init"
  /\ RequestTimeout(k, "onReady")

\* sendCompleteAudio 230-267: save the handlers, arm the 30 s timer, install the
\* wrappers, send; a throwing send (socket null or still CONNECTING) is caught
\* and rejects, leaving the timer armed and the wrappers installed
Arm(k, p) ==
  /\ promises' = [promises EXCEPT ![k] =
        LET q == [p EXCEPT !.timer = "armed", !.pc = "sent",
                           !.o1 = eventHandlers.onResponse, !.o2 = eventHandlers.onError]
        IN IF socket = 0 \/ sockets[socket].readyState = "CONNECTING"
           THEN Settled(q, "rejected", "send threw")
           ELSE [q EXCEPT !.sock = socket, !.ack = sockets[socket].readySeen]]
  /\ eventHandlers' = [eventHandlers EXCEPT !.onResponse = k, !.onError = k]
  /\ sockets' = Send(sockets, socket, k)

\* sendCompleteAudio 204-229: the two checks, then the conversion to base64,
\* which awaits arrayBuffer() for a Blob and may throw
SendCompleteAudio(blob, ok) ==
  /\ NSend < MaxSend
  /\ LET k == Len(promises) + 1
         p == NewPromise("audio")
     IN IF socket = 0 \/ sockets[socket].readyState # "OPEN"
        THEN /\ promises' = Append(promises, Settled(p, "rejected", "not connected"))
             /\ UNCHANGED <<eventHandlers, sockets>>
        ELSE IF ~isSessionReady
        THEN /\ promises' = Append(promises, Settled(p, "rejected", "not initialized"))
             /\ UNCHANGED <<eventHandlers, sockets>>
        ELSE IF blob
        THEN /\ promises' = Append(promises, [p EXCEPT !.pc = "blob"])
             /\ UNCHANGED <<eventHandlers, sockets>>
        ELSE IF ~ok
        THEN /\ promises' = Append(promises, Settled(p, "rejected", "conversion threw"))
             /\ UNCHANGED <<eventHandlers, sockets>>
        ELSE LET q == [p EXCEPT !.timer = "armed", !.pc = "sent",
                           !.sock = socket, !.ack = sockets[socket].readySeen,
                           !.o1 = eventHandlers.onResponse, !.o2 = eventHandlers.onError]
             IN /\ promises' = Append(promises, q)
                /\ eventHandlers' = [eventHandlers EXCEPT !.onResponse = k, !.onError = k]
                /\ sockets' = Send(sockets, socket, k)
  /\ UNCHANGED <<socket, isSessionReady, connectionPromise, received>>
  /\ UNCHANGED <<serverVars, apiVars>>

\* sendCompleteAudio 222: audioData.arrayBuffer() settles
BlobDone(k, ok) ==
  /\ k \in PromiseIds /\ promises[k].kind = "audio" /\ promises[k].pc = "blob"
  /\ IF ok
     THEN Arm(k, promises[k])
     ELSE /\ promises' = [promises EXCEPT ![k] =
                 Settled([@ EXCEPT !.pc = "run"], "rejected", "conversion threw")]
          /\ UNCHANGED <<eventHandlers, sockets>>
  /\ UNCHANGED <<socket, isSessionReady, connectionPromise, received>>
  /\ UNCHANGED <<serverVars, apiVars>>

\* sendCompleteAudio 235-239: the 30 s timer
AudioTimeout(k) ==
  /\ k \in PromiseIds /\ promises[k].kind = "audio"
  /\ RequestTimeout(k, "onResponse")

\* closeSocket 330-338
CloseSocket ==
  /\ socket # 0
  /\ sockets' = Close(sockets, socket)
  /\ socket' = 0
  /\ isSessionReady' = FALSE
  /\ connectionPromise' = 0
  /\ UNCHANGED <<eventHandlers, promises, received>>
  /\ UNCHANGED <<serverVars, apiVars>>

\* updateEventHandlers 341-343 with application handlers for the given slots
UpdateEventHandlers(slots) ==
  /\ eventHandlers' = [k \in DOMAIN eventHandlers |->
                         IF k \in slots THEN 0 ELSE eventHandlers[k]]
  /\ UNCHANGED <<socket, isSessionReady, connectionPromise, sockets, promises, received>>
  /\ UNCHANGED <<serverVars, apiVars>>

\* ------------------------------------------- the gateway behind a socket
\* ws.on("message") of part_002 for the next frame the client wrote: handleInit
\* up to its await; handleCompleteAudio with its two checks, up to its await.
\* The busy flag of the socket's current ClientSession is set when a handler
\* that marked that object is still awaiting.
GwBusy(x) == \E h \in x.run : h.kind = "audio" /\ h.cs = x.cs
GwFrame(type, k) == [type |-> type, for |-> k]
GwReceive(s) ==
  /\ s \in DOMAIN sockets /\ sockets[s].readyState \in {"OPEN", "CLOSING"}
  /\ sockets[s].inq # <<>>
  /\ LET x == sockets[s]
         k == Head(x.inq)
         y == [x EXCEPT !.inq = Tail(@)]
     IN sockets' = [sockets EXCEPT ![s] =
          IF promises[k].kind = "init"
          THEN [y EXCEPT !.run = @ \cup {[req |-> k, kind |-> "init", cs |-> 0]}]
          ELSE IF x.cs = 0 THEN [y EXCEPT !.out = Append(@, GwFrame("error", k))]
          ELSE IF GwBusy(x) THEN [y EXCEPT !.out = Append(@, GwFrame("error", k))]
          ELSE [y EXCEPT !.run = @ \cup {[req |-> k, kind |-> "audio", cs |-> x.cs]},
                         !.out = Append(@, GwFrame("processing", k))]]
  /\ UNCHANGED <<socket, isSessionReady, connectionPromise, eventHandlers, promises, received>>
  /\ UNCHANGED <<serverVars, apiVars>>

\* initializeSession or processCompleteAudio returns to its handler: handleInit
\* stores a new ClientSession and writes `ready` (or `error`); handleCompleteAudio
\* writes `response` (or `error`) and clears the flag of the object it marked
GwSettle(s, h, ok) ==
  /\ s \in DOMAIN sockets /\ sockets[s].readyState \in {"OPEN", "CLOSING"}
  /\ h \in sockets[s].run
  /\ sockets' = [sockets EXCEPT ![s] =
        LET y == [@ EXCEPT !.run = @ \ {h}]
        IN IF h.kind = "init"
           THEN IF ok THEN [y EXCEPT !.cs = @ + 1, !.out = Append(@, GwFrame("ready", h.req))]
                ELSE [y EXCEPT !.out = Append(@, GwFrame("error", h.req))]
           ELSE [y EXCEPT !.out = Append(@, GwFrame(IF ok THEN "response" ELSE "error", h.req))]]
  /\ UNCHANGED <<socket, isSessionReady, connectionPromise, eventHandlers, promises, received>>
  /\ UNCHANGED <<serverVars, apiVars>>

\* the next frame the gateway wrote arrives: socket.onmessage, handleMessage
GwDeliver(s) ==
  /\ s \in DOMAIN sockets /\ sockets[s].readyState = "OPEN"
  /\ sockets[s].out # <<>>
  /\ LET f == Head(sockets[s].out)
     IN /\ HandleMessage(f.type, f.for)
        /\ sockets' = Seen([sockets EXCEPT ![s].out = Tail(@)], s, f.type)
  /\ UNCHANGED <<socket, connectionPromise, received>>
  /\ UNCHANGED <<serverVars, apiVars>>

\* The client against any server: the application connects, sends audio and
\* closes in any order, sockets open, fail and close, any frame may arrive at
\* any time (a `ready` frame makes the session ready), timers fire.
NextClient ==
  \/ (connectionPromise # 0 \/ NConnect < MaxSock) /\ ConnectWS
  \/ \E blob \in BOOLEAN, ok \in BOOLEAN : SendCompleteAudio(blob, ok)
  \/ CloseSocket
  \/ \E s \in DOMAIN sockets : SockOpen(s)
  \/ \E s \in DOMAIN sockets : SockDrops(s)
  \/ \E s \in DOMAIN sockets : CloseCompletes(s)
  \/ \E s \in DOMAIN sockets, type \in ServerFrames : Deliver(s, type)
  \/ \E k \in PromiseIds : ConnectTimeout(k)
  \/ \E k \in PromiseIds : AudioTimeout(k)
  \/ \E k \in PromiseIds, ok \in BOOLEAN : BlobDone(k, ok)

SpecClient == Init /\ [][NextClient]_vars

\* timers fire, closing sockets finish closing, arrayBuffer() settles
ClientPromises == 1..(MaxSock + MaxSend)
SpecClientLive ==
  /\ SpecClient
  /\ \A k \in ClientPromises :
        /\ WF_vars(ConnectTimeout(k)) /\ WF_vars(AudioTimeout(k))
        /\ WF_vars(\E ok \in BOOLEAN : BlobDone(k, ok))
  /\ \A s \in 1..MaxSock : WF_vars(CloseCompletes(s))

\* The client against the gateway on a connection that stays up: it connects,
\* initialises and sends audio in any order; the gateway answers each frame as
\* part_002 does, its provider calls succeeding or failing.
NextWire ==
  \/ (connectionPromise # 0 \/ NConnect < TurnInits) /\ ConnectWS
  \/ InitializeSession
  \/ \E blob \in BOOLEAN : SendCompleteAudio(blob, TRUE)
  \/ \E s \in DOMAIN sockets : SockOpen(s)
  \/ \E s \in DOMAIN sockets : GwReceive(s)
  \/ \E s \in DOMAIN sockets : \E h \in sockets[s].run, ok \in BOOLEAN : GwSettle(s, h, ok)
  \/ \E s \in DOMAIN sockets : GwDeliver(s)
  \/ \E k \in PromiseIds : ConnectTimeout(k)
  \/ \E k \in PromiseIds : InitTimeout(k)
  \/ \E k \in PromiseIds : AudioTimeout(k)
  \/ \E k \in PromiseIds : BlobDone(k, TRUE)

SpecWire == Init /\ [][NextWire]_vars

\* The client reconnecting: up to MaxConn sockets, closed by the application,
\* by the peer or by a failure at any time; any frame may arrive.
NextReconnect ==
  \/ (connectionPromise # 0 \/ NConnect < MaxConn) /\ ConnectWS
  \/ CloseSocket
  \/ NSend < TurnAudios /\ SendCompleteAudio(FALSE, TRUE)
  \/ \E s \in DOMAIN sockets : SockOpen(s)
  \/ \E s \in DOMAIN sockets : SockDrops(s)
  \/ \E s \in DOMAIN sockets : CloseCompletes(s)
  \/ \E s \in DOMAIN sockets, type \in ServerFrames : Deliver(s, type)
  \/ \E k \in PromiseIds : ConnectTimeout(k)
  \/ \E k \in PromiseIds : AudioTimeout(k)

SpecReconnect == Init /\ [][NextReconnect]_vars

\* ============================================================ credits API
\* part_004 242-318, deductCredits: one HTTP request per record; every await is
\* a step, and the database or redis call it awaits succeeds or throws
Amounts == 0..MaxAmount
ValidRows ==
  {r \in [credits : 0..MaxCredits, freeCredits : 0..MaxCredits] : r.freeCredits <= r.credits}
Answer(r, status) == [r EXCEPT !.pc = "done", !.status = status]

\* 276-286: free credits first, then paid credits
Deducted(row, amount) ==
  IF row.freeCredits >= amount
  THEN Row(row.credits - amount, row.freeCredits - amount)
  ELSE Row(row.credits - amount, 0)

\* 242-261: the request arrives; 401 and 400 are answered before any await,
\* else findUnique is called
DeductCredits(auth, amount) ==
  /\ Len(requests) < MaxDeduct
  /\ requests' = Append(requests,
        LET r == [amount |-> amount, pc |-> "findUnique", status |-> 0, data |-> Row(0, 0)]
        IN IF ~auth THEN Answer(r, 401)
           ELSE IF amount <= 0 THEN Answer(r, 400)
           ELSE r)
  /\ UNCHANGED <<subscription, cache, opening, poll>>
  /\ UNCHANGED <<serverVars, clientVars>>

\* 259-288: findUnique returns; 404, 400 or the new balances, then update is called
FindUniqueReturns(i, ok) ==
  /\ i \in DOMAIN requests /\ requests[i].pc = "findUnique"
  /\ requests' = [requests EXCEPT ![i] =
        IF ~ok THEN Answer(@, 500)
        ELSE IF subscription = <<>> THEN Answer(@, 404)
        ELSE IF subscription[1].credits < @.amount THEN Answer(@, 400)
        ELSE [@ EXCEPT !.pc = "update",
                       !.data = Deducted(subscription[1], requests[i].amount)]]
  /\ UNCHANGED <<subscription, cache, opening, poll>>
  /\ UNCHANGED <<serverVars, clientVars>>

\* 288-307: update writes the balances computed from the row that was read
\* (or throws, writing nothing), then setCache is called
UpdateReturns(i, ok) ==
  /\ i \in DOMAIN requests /\ requests[i].pc = "update"
  /\ IF ok /\ subscription # <<>>
     THEN /\ subscription' = <<requests[i].data>>
          /\ requests' = [requests EXCEPT ![i].pc = "setCache"]
     ELSE /\ subscription' = subscription
          /\ requests' = [requests EXCEPT ![i] = Answer(@, 500)]
  /\ UNCHANGED <<cache, opening, poll>>
  /\ UNCHANGED <<serverVars, clientVars>>

\* 305-317: setCache stores the updated row (or throws); 200 or 500
SetCacheReturns(i, ok) ==
  /\ i \in DOMAIN requests /\ requests[i].pc = "setCache"
  /\ cache' = IF ok THEN <<requests[i].data>> ELSE cache
  /\ requests' = [requests EXCEPT ![i] = Answer(@, IF ok THEN 200 ELSE 500)]
  /\ UNCHANGED <<subscription, opening, poll>>
  /\ UNCHANGED <<serverVars, clientVars>>

\* any subscription row with 0 <= freeCredits <= credits, or none
InitCredits ==
  /\ wsOpen = [c \in Conns |-> TRUE]
  /\ wsFault = [c \in Conns |-> FALSE]
  /\ wsSessions = [c \in Conns |-> 0]
  /\ clientHeap = <<>>
  /\ sessions = [k \in SessionIds |-> 0]
  /\ sessionHeap = <<>>
  /\ chat = [u \in UserIds |-> <<>>]
  /\ tasks = <<>>
  /\ ClientInit
  /\ subscription \in {<<>>} \cup {<<r>> : r \in ValidRows}
  /\ cache = <<>> /\ opening = subscription
  /\ requests = <<>> /\ poll = IdlePoll

NextCredits ==
  \/ \E auth \in BOOLEAN, amount \in Amounts : DeductCredits(auth, amount)
  \/ \E i \in DOMAIN requests, ok \in BOOLEAN : FindUniqueReturns(i, ok)
  \/ \E i \in DOMAIN requests, ok \in BOOLEAN : UpdateReturns(i, ok)
  \/ \E i \in DOMAIN requests, ok \in BOOLEAN : SetCacheReturns(i, ok)

SpecCredits == InitCredits /\ [][NextCredits]_vars

\* ============================================================== video API
\* part_005 197-237, pollVideoStatus. Statuses of a status request: completed,
\* failed, anything else (still rendering), or the request throws.
PollStatuses == {"completed", "failed", "processing", "throws"}

\* the loop header after attempt++: the next request, or the throw after the loop
NextAttempt(p) ==
  IF p.attempt + 1 < maxAttempts
  THEN [p EXCEPT !.attempt = @ + 1, !.pc = "get", !.requests = @ + 1]
  ELSE [p EXCEPT !.attempt = @ + 1, !.pc = "thrown", !.result = "Video generation timed out"]

\* 228-233: the catch block of the loop body
Caught(p, error) ==
  IF p.attempt = maxAttempts - 1
  THEN [p EXCEPT !.pc = "thrown", !.result = error]
  ELSE NextAttempt(p)

\* 197-211: the call; attempt = 0 and the first status request
PollVideoStatus ==
  /\ poll.pc = "idle"
  /\ poll' = [poll EXCEPT !.pc = "get", !.requests = 1]
  /\ UNCHANGED <<subscription, cache, opening, requests>>
  /\ UNCHANGED <<serverVars, clientVars>>

\* 202-233: the status request returns or throws
StatusReturns(status) ==
  /\ poll.pc = "get"
  /\ LET p == IF status = "failed" /\ poll.failedAt = 0
              THEN [poll EXCEPT !.failedAt = poll.requests] ELSE poll
     IN poll' = CASE status = "completed" -> [p EXCEPT !.pc = "returned", !.result = "video_url"]
                  [] status = "failed" -> Caught(p, "Video generation failed")
                  [] status = "throws" -> Caught(p, "request error")
                  [] OTHER -> [p EXCEPT !.pc = "sleep"]
  /\ UNCHANGED <<subscription, cache, opening, requests>>
  /\ UNCHANGED <<serverVars, clientVars>>

\* 225-226: the 5 s timer fires
PollWakes ==
  /\ poll.pc = "sleep"
  /\ poll' = NextAttempt(poll)
  /\ UNCHANGED <<subscription, cache, opening, requests>>
  /\ UNCHANGED <<serverVars, clientVars>>

NextPoll ==
  \/ PollVideoStatus
  \/ \E status \in PollStatuses : StatusReturns(status)
  \/ PollWakes

SpecPoll == Init /\ [][NextPoll]_vars
SpecPollLive == SpecPoll /\ WF_vars(NextPoll)

\* ================================================================ claims
AudioTasks == {i \in TaskIds : tasks[i].kind = "audio"}
InitTasks  == {i \in TaskIds : tasks[i].kind = "init"}
\* a run of processCompleteAudio is in progress for task i
InPipeline(i) == tasks[i].kind = "audio" /\ tasks[i].accepted /\ tasks[i].pc # "done"
FrameTypes(i) == [k \in 1..Len(tasks[i].frames) |-> tasks[i].frames[k].type]

\* C1 (as stated): for every Session key (userId, friendId), at most one run of
\* processCompleteAudio is in progress at any time, over all connections.
C1_SingleFlightPerSession ==
  \A i, j \in AudioTasks :
     (InPipeline(i) /\ InPipeline(j)
        /\ tasks[i].userId = tasks[j].userId /\ tasks[i].friendId = tasks[j].friendId)
     => i = j

\* C2 (as stated): an audio frame that arrives on a connection while an earlier
\* audio of that connection is still being processed, no init frame having been
\* received in between, is rejected: one "Already processing" error frame, no
\* processing frame, no pipeline run.
C2_BusyRejects ==
  \A j \in AudioTasks :
     tasks[j].during # {}
     => /\ ~tasks[j].accepted
        /\ tasks[j].pc = "done"
        /\ FrameTypes(j) = <<"error">>

\* C3: an audio frame received before a valid init of its connection has
\* completed gets exactly the "not initialized" error frame; it is not accepted,
\* sends no processing frame, never enters processCompleteAudio and creates no Session.
C3_AudioBeforeInit ==
  \A j \in AudioTasks :
     ~tasks[j].initBefore
     => /\ ~tasks[j].accepted
        /\ tasks[j].pc = "done"
        /\ tasks[j].frames =
             << ErrorFrame("Session not initialized. Please send init message first.", Absent) >>
        /\ tasks[j].sessRef = 0 /\ tasks[j].sessMade = 0
        /\ tasks[j].result = NoResult

\* C3 witness: an audio arrived while an init of its connection was still
\* awaiting the chat-log load, and was answered.
C3_Witness ==
  \E j \in AudioTasks, i \in InitTasks :
     /\ i < j /\ tasks[i].conn = tasks[j].conn /\ tasks[i].pc = "i_load"
     /\ ~tasks[j].initBefore /\ Len(tasks[j].frames) = 1

\* C4: the busy flag of an accepted audio is released on every exit path: a
\* ClientSession is flagged busy only while the turn that set the flag is in
\* flight, and (every provider call settling) every accepted audio reaches the
\* end of its handler with the flag of its ClientSession cleared.
BusyHasOwner ==
  \A k \in 1..Len(clientHeap) :
     clientHeap[k].isProcessing => \E i \in AudioTasks : InPipeline(i) /\ tasks[i].csRef = k
Released(i) ==
  tasks[i].pc = "done" /\ tasks[i].csRef # 0 /\ ~clientHeap[tasks[i].csRef].isProcessing
C4_BusyReleased ==
  /\ []BusyHasOwner
  /\ \A i \in TurnTasks :
        [](((i \in TaskIds) /\ tasks[i].accepted) => <>((i \in TaskIds) /\ Released(i)))

\* C4 witness: a turn ended by the error result of the pipeline, another by the
\* exception of the base64 decode, and the connection accepts audio again.
C4_Witness ==
  \E i \in AudioTasks :
     /\ tasks[i].accepted /\ tasks[i].pc = "done"
     /\ (Truthy(tasks[i].result.error) \/ tasks[i].data = NoData)
     /\ wsSessions[tasks[i].conn] = tasks[i].csRef
     /\ ~AlreadyProcessing(tasks[i].conn)

\* C5 (as stated): after a completed turn (one that ended without an error)
\* the recent-turn history of its Session has at most 10 entries.
C5_HistoryBounded ==
  \A i \in AudioTasks :
     (/\ tasks[i].accepted /\ tasks[i].pc = "done" /\ tasks[i].sessRef # 0
      /\ tasks[i].result.error = Absent)
     => Len(tasks[i].ctxAfter) <= ContextCap

\* C6: when the Transcriber throws, the turn's result has transcript "", the
\* apology as response and the error detail set, and the Session's history
\* when the turn returns is what it was when the turn began.
C6_TranscriberThrows ==
  \A i \in AudioTasks :
     (tasks[i].sttThrew /\ tasks[i].pc = "done")
     => /\ tasks[i].result.transcript = ""
        /\ tasks[i].result.response = ErrorReply
        /\ Truthy(tasks[i].result.error)
        /\ tasks[i].ctxAfter = tasks[i].ctxBefore

\* C6 witness: client.recognize failed on a real clip while the Session already
\* held history.
C6_Witness ==
  \E i \in AudioTasks :
     /\ tasks[i].sttThrew /\ tasks[i].pc = "done"
     /\ DecodedLen(tasks[i].data) >= MinAudioBytes
     /\ tasks[i].ctxBefore # <<>>

\* C7 (as stated): a turn whose Generate call was still pending when its
\* deadline expired returns one of the fixed fallback sentences, with the real
\* transcript.
FallbackSet == {Fallbacks[k] : k \in 1..Len(Fallbacks)}
C7_DeadlineFallback ==
  \A i \in AudioTasks :
     (tasks[i].aborted /\ tasks[i].pc = "done")
     => /\ tasks[i].result.response \in FallbackSet
        /\ tasks[i].result.transcript = Str(Transcription(SttResult("text", i)))

\* C8 (as stated): init handlers for the same key whose chat-log loads overlap
\* end up with one and the same Session object.
C8_OneInstance ==
  \A i, j \in InitTasks :
     (i \in tasks[j].overlap /\ tasks[i].pc = "done" /\ tasks[j].pc = "done")
     => tasks[i].sessMade = tasks[j].sessMade

\* C9 (as stated): a key that has a Session in the store keeps that very
\* Session object; initialisation never puts another one in its place.
C9_InitIdempotent ==
  [][\A k \in SessionIds : (sessions[k] # 0 /\ sessions'[k] # 0) => sessions'[k] = sessions[k]]_vars

\* C10 (as stated): a clip of fewer than 1000 bytes, the empty one included, is
\* answered by processing + response, with transcript "", the "didn't catch
\* that" reply and no error.
C10_ShortClipNormal ==
  \A i \in AudioTasks :
     (/\ tasks[i].accepted /\ tasks[i].pc = "done" /\ wsOpen[tasks[i].conn]
      /\ tasks[i].data # NoData /\ DecodedLen(tasks[i].data) < MinAudioBytes)
     => /\ tasks[i].result.error = Absent
        /\ tasks[i].result.transcript = ""
        /\ tasks[i].result.response = ShortReply
        /\ FrameTypes(i) = <<"processing", "response">>

\* C11 (as stated): every frame that decodes to neither an init nor an audio
\* message is answered by exactly one error frame on the open connection.
OtherTasks == {i \in TaskIds : tasks[i].kind = "other"}
C11_UndecodableOneError ==
  \A i \in OtherTasks : FrameTypes(i) = <<"error">>

\* a turn that has returned, on a connection that is still open
Answered(i) == tasks[i].accepted /\ tasks[i].pc = "done" /\ wsOpen[tasks[i].conn]
\* the history ends with the pair of the turn
EndsWithTurn(ctx, transcript, reply) ==
  /\ Len(ctx) >= 2
  /\ ctx[Len(ctx) - 1] = CtxLine("user", transcript)
  /\ ctx[Len(ctx)] = CtxLine("ai", reply)

\* C12 (as stated): when processCompleteAudio returns a result with the error
\* field set, a frame sent for the turn carries the result's response text (the
\* apology), its audio when synthesis succeeded, and the error detail.
C12_ApologySurfaced ==
  \A i \in AudioTasks :
     (Answered(i) /\ Truthy(tasks[i].result.error))
     => \E k \in 1..Len(tasks[i].frames) :
           /\ tasks[i].frames[k].text = tasks[i].result.response
           /\ tasks[i].frames[k].details = tasks[i].result.error
           /\ (tasks[i].result.audioBuffer # Absent
                 => tasks[i].frames[k].audioBuffer = Base64(tasks[i].result.audioBuffer))

\* C13 (as stated): a turn whose append of (user, transcript) to the chat log
\* failed still ends with a response frame, no error, and the session history
\* updated with the turn.
C13_UserLogFailureTolerated ==
  \A i \in AudioTasks :
     (Answered(i) /\ "pushU" \in tasks[i].failed)
     => /\ tasks[i].result.error = Absent
        /\ FrameTypes(i) = <<"processing", "response">>
        /\ EndsWithTurn(tasks[i].ctxAfter, tasks[i].result.transcript, tasks[i].result.response)

\* the transcript client.recognize gives for the clip of task i
RealTranscript(i) == Str(Transcription(SttResult("text", i)))
Tolerated == {"embed", "recall", "tts", "pushAi"}

\* C14: whatever subset of Embed, RecallMemory, Synthesize and the (ai, reply)
\* log append fails in a turn with a transcript, the failed branch is replaced
\* by its default (empty vector, empty snippets, null audio), the result has no
\* error, the client gets processing + response with the real transcript, and
\* the session history ends with the turn.
C14_BranchFailuresTolerated ==
  \A i \in AudioTasks :
     /\ (tasks[i].pc \in {"p_gen", "p_fanB"} /\ "embed" \in tasks[i].failed)
          => tasks[i].embedding = <<>>
     /\ (tasks[i].pc \in {"p_gen", "p_fanB"} /\ "recall" \in tasks[i].failed)
          => tasks[i].memory = <<>>
     /\ (tasks[i].pc = "done" /\ tasks[i].failed \cap Tolerated # {})
          => /\ tasks[i].result.error = Absent
             /\ tasks[i].result.transcript = RealTranscript(i)
             /\ tasks[i].result.transcript # ""
             /\ ("tts" \in tasks[i].failed => tasks[i].result.audioBuffer = Absent)
             /\ EndsWithTurn(tasks[i].ctxAfter, tasks[i].result.transcript, tasks[i].result.response)
             /\ (wsOpen[tasks[i].conn]
                  => tasks[i].frames =
                       << ProcessingFrame,
                          ResponseFrame(tasks[i].result.response, RealTranscript(i),
                                        IF "tts" \in tasks[i].failed THEN Absent
                                        ELSE Base64(Mp3(tasks[i].result.response))) >>)

\* C14 witness: all four calls failed in one turn and the client was answered.
C14_Witness ==
  \E i \in AudioTasks : Answered(i) /\ Tolerated \subseteq tasks[i].failed

\* C15: when the Generate call throws, generateResponse returns one of the five
\* fallback sentences; the turn's result has no error and the real transcript,
\* and the session history ends with "ai: <that fallback>".
C15_GenerateFailureFallback ==
  \A i \in AudioTasks :
     /\ (tasks[i].pc = "p_fanB" /\ "gen" \in tasks[i].failed)
          => tasks[i].aiResponse \in FallbackSet
     /\ (tasks[i].pc = "done" /\ "gen" \in tasks[i].failed)
          => /\ tasks[i].result.error = Absent
             /\ tasks[i].result.response \in FallbackSet
             /\ tasks[i].result.transcript = RealTranscript(i)
             /\ EndsWithTurn(tasks[i].ctxAfter, RealTranscript(i), tasks[i].result.response)

\* C15 witness: a turn whose Generate call threw has returned, with the last
\* of the fallback sentences.
C15_Witness ==
  \E i \in AudioTasks :
     /\ tasks[i].pc = "done" /\ "gen" \in tasks[i].failed
     /\ tasks[i].result.response = Fallbacks[Len(Fallbacks)]

\* C16: the background store never delays or fails the turn.  A turn that has
\* reached fan-out B returns without an error, is answered and releases the
\* busy flag even if the calls of storeVectorsInBackground never settle, and
\* a step of the background store changes no result, frame, Session or flag.
BgPending(i) == tasks[i].bgUser = "store" \/ tasks[i].bgAi \in {"embed", "store"}
BgFailed(i)  == tasks[i].bgUser = "failed" \/ tasks[i].bgAi = "failed"
BgStepInert ==
  \A i \in TaskIds :
     (i \in DOMAIN tasks' /\ (tasks'[i].bgUser # tasks[i].bgUser \/ tasks'[i].bgAi # tasks[i].bgAi)
        /\ tasks[i].bgAi # "idle")
     => /\ tasks'[i].result = tasks[i].result /\ tasks'[i].frames = tasks[i].frames
        /\ tasks'[i].pc = tasks[i].pc
        /\ sessionHeap' = sessionHeap /\ sessions' = sessions /\ clientHeap' = clientHeap
C16_BackgroundStoreDetached ==
  /\ [][BgStepInert]_vars
  /\ [](\A i \in AudioTasks :
          (tasks[i].pc = "done" /\ tasks[i].bgAi # "idle") => tasks[i].result.error = Absent)
  /\ \A i \in TurnTasks :
        [](((i \in TaskIds) /\ tasks[i].pc = "p_fanB")
            => <>((i \in TaskIds) /\ Released(i) /\ tasks[i].result.error = Absent
                   /\ EndsWithTurn(tasks[i].ctxAfter, tasks[i].result.transcript,
                                   tasks[i].result.response)))

\* C16 witness: a turn was answered with a response after one call of its
\* background store had failed and while another was still pending.
C16_Witness ==
  \E i \in AudioTasks :
     /\ Answered(i) /\ BgFailed(i) /\ BgPending(i)
     /\ FrameTypes(i) = <<"processing", "response">>

\* C17 (as stated): once a connection has closed and every handler started by
\* its messages has finished, the gateway's map has no entry for it and the
\* Session Store holds no Session one of its handlers created.
HandlersDone(c) == \A i \in TaskIds : tasks[i].conn = c => tasks[i].pc = "done"
C17_CloseDiscards ==
  \A c \in Conns :
     (~wsOpen[c] /\ HandlersDone(c))
     => /\ wsSessions[c] = 0
        /\ \A i \in TaskIds :
              (tasks[i].conn = c /\ tasks[i].sessMade # 0)
              => sessions[SessionId(tasks[i].userId, tasks[i].friendId)] # tasks[i].sessMade

\* C18: on an open connection a valid init is answered by exactly one ready
\* frame with sessionId userId-friendId; an accepted audio has sent exactly
\* one processing frame while in flight and exactly processing + one terminal
\* frame (response or error) once finished, which it always is in the end; no
\* response frame is sent without the processing frame of its turn before it.
FramesInOrder ==
  /\ \A i \in InitTasks :
        (tasks[i].pc = "done" /\ wsOpen[tasks[i].conn]
           /\ tasks[i].userId # "" /\ tasks[i].friendId # "")
        => /\ FrameTypes(i) = <<"ready">>
           /\ tasks[i].frames[1].sessionId = tasks[i].userId \o "-" \o tasks[i].friendId
  /\ \A i \in AudioTasks :
        /\ (tasks[i].accepted /\ wsOpen[tasks[i].conn])
             => IF tasks[i].pc = "done"
                THEN FrameTypes(i) \in {<<"processing", "response">>, <<"processing", "error">>}
                ELSE FrameTypes(i) = <<"processing">>
        /\ \A k \in 1..Len(tasks[i].frames) :
              tasks[i].frames[k].type = "response"
              => \E j \in 1..(k - 1) : tasks[i].frames[j].type = "processing"
C18_FrameOrder ==
  /\ []FramesInOrder
  /\ \A i \in TurnTasks :
        [](((i \in TaskIds) /\ tasks[i].accepted) => <>((i \in TaskIds) /\ tasks[i].pc = "done"))

\* C18 witness: ready, then a turn on the still open connection that ended
\* with processing + error without any provider call after transcription.
C18_Witness ==
  \E i \in InitTasks, j \in AudioTasks :
     /\ i < j /\ FrameTypes(i) = <<"ready">>
     /\ Answered(j) /\ FrameTypes(j) = <<"processing", "error">>
     /\ tasks[j].failed = {}

\* C19 (as stated): whenever no pushChat call is between its append and its
\* trim, the Short-Term Chat Log of every user holds at most 100 entries.
PushInFlight(u) ==
  \E i \in AudioTasks :
     tasks[i].userId = u /\ (tasks[i].pc = "p_ltrim_u" \/ tasks[i].pushSt = "ltrim")
C19_ChatLogCapped ==
  \A u \in UserIds : ~PushInFlight(u) => Len(chat[u]) <= ChatCap

\* C20 (as stated): every Session, in every reachable state, holds at most 10
\* recent-turn entries, right after its initialisation included.
C20_SeedBounded ==
  \A k \in 1..Len(sessionHeap) : Len(sessionHeap[k].context) <= ContextCap

\* C21: a frame that cannot be written (socket closed, or ws.send throws) is
\* dropped and the handler goes on: the flag is held only by a turn in
\* flight, every accepted audio ends with its flag cleared, and the turn's
\* result and the Session's history are what they are when every frame is
\* delivered.
Succeeded(i) == tasks[i].result.error = Absent /\ tasks[i].result.transcript \notin {"", Absent}
SendInert ==
  \A i \in AudioTasks :
     (tasks[i].accepted /\ tasks[i].pc = "done" /\ tasks[i].sessRef # 0)
     => /\ tasks[i].result # NoResult
        /\ tasks[i].ctxAfter =
              IF Succeeded(i)
              THEN UpdateContext(tasks[i].ctxBefore, tasks[i].result.transcript, tasks[i].result.response)
              ELSE tasks[i].ctxBefore
C21_SendBestEffort ==
  /\ [](BusyHasOwner /\ SendInert)
  /\ \A i \in TurnTasks :
        [](((i \in TaskIds) /\ tasks[i].accepted) => <>((i \in TaskIds) /\ Released(i)))

\* C21 witness: a turn succeeded on a socket that is open but failed its
\* write of the response, and the flag is clear.
C21_Witness ==
  \E i \in AudioTasks :
     /\ tasks[i].accepted /\ tasks[i].pc = "done" /\ Succeeded(i)
     /\ wsOpen[tasks[i].conn] /\ wsFault[tasks[i].conn]
     /\ FrameTypes(i) = <<"processing">>
     /\ Released(i)

\* C22: cleanupSession removes the entry of its key and nothing else: on
\* every store the program reaches its result has no entry for the key and
\* every other key as before, it is the store itself when the key has no
\* entry, and applying it to the store it produced changes nothing.
EvictsOnlyKey(u, f) ==
  LET m == CleanupSession(u, f)  key == SessionId(u, f)
  IN /\ DOMAIN m = DOMAIN sessions
     /\ m[key] = 0
     /\ \A k \in DOMAIN sessions \ {key} : m[k] = sessions[k]
     /\ (sessions[key] = 0 => m = sessions)
EvictStep ==
  \A c \in Conns :
     (wsOpen[c] /\ ~wsOpen'[c] /\ wsSessions[c] # 0)
     => LET u == clientHeap[wsSessions[c]].userId
            f == clientHeap[wsSessions[c]].friendId
        IN /\ sessions' = CleanupSession(u, f)
           /\ [sessions' EXCEPT ![SessionId(u, f)] = 0] = sessions'
C22_EvictIdempotent ==
  /\ [](\A p \in Pairs : EvictsOnlyKey(p[1], p[2]))
  /\ [][EvictStep]_vars

\* C22 witness: a connection has closed and its key has no entry, while the
\* Session of another key is still in the store.
C22_Witness ==
  \E c \in Conns, i \in InitTasks, k \in PairKeys :
     /\ ~wsOpen[c] /\ tasks[i].conn = c /\ tasks[i].pc = "done" /\ tasks[i].sessMade # 0
     /\ sessions[SessionId(tasks[i].userId, tasks[i].friendId)] = 0
     /\ k # SessionId(tasks[i].userId, tasks[i].friendId) /\ sessions[k] # 0

\* C30 (as stated): a turn runs on the Session of its own (userId, friendId)
\* pair; it never reads the Session of a different pair.
C30_PairsDoNotShare ==
  \A i \in AudioTasks :
     tasks[i].sessRef # 0
     => /\ sessionHeap[tasks[i].sessRef].userId = tasks[i].userId
        /\ sessionHeap[tasks[i].sessRef].friendId = tasks[i].friendId

\* C23 (as stated): while a turn started on a connection is in flight, the
\* busy flag of that connection stays true, whatever frames arrive meanwhile.
C23_FlagHeldDuringTurn ==
  \A i \in AudioTasks :
     (InPipeline(i) /\ wsOpen[tasks[i].conn] /\ wsSessions[tasks[i].conn] # 0)
     => clientHeap[wsSessions[tasks[i].conn]].isProcessing

\* C24 (as stated): when a turn has finished successfully, the Session the
\* store holds under the turn's key ends with "user: <transcript>" and
\* "ai: <reply>" of that turn, whatever init messages arrived during the turn.
C24_TurnNotLost ==
  \A i \in AudioTasks :
     (tasks[i].accepted /\ tasks[i].pc = "done" /\ Succeeded(i) /\ tasks[i].storeAfter.ref # 0)
     => EndsWithTurn(tasks[i].storeAfter.context, tasks[i].result.transcript,
                     tasks[i].result.response)

\* the order of the awaits of processCompleteAudio
StageEdges ==
  { <<"p_load", "p_stt">>, <<"p_load", "done">>,
    <<"p_stt", "p_rpush_u">>, <<"p_stt", "p_short_tts">>, <<"p_stt", "p_err_tts">>,
    <<"p_short_tts", "done">>, <<"p_err_tts", "done">>,
    <<"p_rpush_u", "p_ltrim_u">>, <<"p_rpush_u", "p_err_tts">>,
    <<"p_ltrim_u", "p_fanA">>, <<"p_ltrim_u", "p_err_tts">>,
    <<"p_fanA", "p_gen">>, <<"p_gen", "p_fanB">>, <<"p_fanB", "done">> }

FanAIdle(t) == t.embSt = "idle" /\ t.memSt = "idle"
FanBIdle(t) == t.aiResponse = Absent /\ t.ttsSt = "idle" /\ t.pushSt = "idle"

StageInv ==
  \A i \in AudioTasks :
     LET t == tasks[i] IN
       /\ t.pc \in {"p_load", "p_stt"} => t.transcript = Absent /\ FanAIdle(t) /\ FanBIdle(t)
       /\ t.pc \in {"p_rpush_u", "p_ltrim_u"} => Truthy(t.transcript) /\ FanAIdle(t) /\ FanBIdle(t)
       /\ t.pc = "p_fanA" => /\ {t.embSt, t.memSt} \subseteq {"pending", "done"}
                              /\ "pending" \in {t.embSt, t.memSt}
                              /\ FanBIdle(t)
       /\ t.pc = "p_gen" => t.embSt = "done" /\ t.memSt = "done" /\ FanBIdle(t)
       /\ t.pc = "p_fanB" => /\ t.embSt = "done" /\ t.memSt = "done" /\ t.aiResponse # Absent
                              /\ t.ttsSt \in {"pending", "done"}
                              /\ t.pushSt \in {"rpush", "ltrim", "done"}
                              /\ ~(t.ttsSt = "done" /\ t.pushSt = "done")

StageStep ==
  /\ \A i \in AudioTasks :
        i \in DOMAIN tasks' /\ tasks'[i].pc # tasks[i].pc
        => /\ <<tasks[i].pc, tasks'[i].pc>> \in StageEdges
           /\ (tasks[i].pc = "p_fanB") => (tasks[i].ttsSt = "done" \/ tasks[i].pushSt = "done")
  /\ \A r \in DOMAIN sessionHeap :
        sessionHeap'[r] # sessionHeap[r]
        => \E i \in AudioTasks : /\ tasks[i].sessRef = r
                                 /\ tasks[i].pc = "p_fanB" /\ tasks'[i].pc = "done"
                                 /\ tasks'[i].result.error = Absent

\* C25: within a turn the stages run in order: the transcript exists before the
\* user row is appended, both calls of the first fan-out start after that append
\* and have settled before Generate is called, Synthesize and the ai append
\* start after Generate returned, and the history is updated and the result
\* returned only in the step in which the second of those two settles.
C25_StagesInOrder == []StageInv /\ [][StageStep]_vars
\* a turn that went through every stage and updated the history
C25_Witness ==
  \E i \in AudioTasks :
     /\ tasks[i].accepted /\ tasks[i].pc = "done" /\ Succeeded(i)
     /\ tasks[i].failed = {} /\ tasks[i].ctxAfter # tasks[i].ctxBefore

RECURSIVE TextOnly(_)
TextOnly(l) ==
  IF l = <<>> THEN <<>>
  ELSE IF Head(l) = Absent THEN TextOnly(Tail(l)) ELSE <<Head(l)>> \o TextOnly(Tail(l))

PromptStep ==
  \A i \in AudioTasks :
     (i \in DOMAIN tasks' /\ tasks[i].pc = "p_fanA" /\ tasks'[i].pc = "p_gen")
     => /\ tasks'[i].enhanced = sessionHeap[tasks[i].sessRef].context
                                  \o TextOnly(tasks'[i].memory)
                                  \o << "user: " \o tasks[i].transcript >>
        /\ tasks'[i].userMessage = tasks[i].transcript

\* C26: the context passed to generateResponse is the session's history, then
\* the recalled snippets without their non-text entries, then "user: <transcript>";
\* the user message passed is the transcript.
C26_PromptContext == [][PromptStep]_vars
\* Generate is pending with a history, and a recalled entry was dropped
C26_Witness ==
  \E i \in AudioTasks :
     /\ tasks[i].pc = "p_gen"
     /\ Len(sessionHeap[tasks[i].sessRef].context) > 0
     /\ Absent \in {tasks[i].memory[k] : k \in DOMAIN tasks[i].memory}
     /\ Len(tasks[i].enhanced) = Len(sessionHeap[tasks[i].sessRef].context) + 2

HistoryStep ==
  \A i \in AudioTasks :
     (i \in DOMAIN tasks' /\ tasks[i].pc = "p_fanB" /\ tasks'[i].pc = "done"
        /\ tasks'[i].result.error = Absent)
     => LET r == tasks[i].sessRef
            all == sessionHeap[r].context
                     \o << "user: " \o tasks'[i].result.transcript,
                           "ai: " \o tasks'[i].result.response >>
            n == IF Len(all) < ContextCap THEN Len(all) ELSE ContextCap
        IN /\ tasks'[i].result.transcript = tasks[i].transcript
           /\ tasks'[i].result.response = tasks[i].aiResponse
           /\ DOMAIN sessionHeap' = DOMAIN sessionHeap
           /\ sessionHeap'[r].context = [k \in 1..n |-> all[Len(all) - n + k]]
           /\ [sessionHeap' EXCEPT ![r].context = sessionHeap[r].context] = sessionHeap

\* C28: a successful turn leaves its Session's history equal to the last ten
\* of the old history followed by "user: T" and "ai: R", and changes no other
\* field of that Session and no other Session.
C28_HistoryUpdate == [][HistoryStep]_vars
\* a turn dropped old entries while another Session existed
C28_Witness ==
  \E i \in AudioTasks :
     /\ tasks[i].accepted /\ tasks[i].pc = "done" /\ Succeeded(i)
     /\ Len(tasks[i].ctxBefore) > ContextCap - 2 /\ Len(tasks[i].ctxAfter) = ContextCap
     /\ Len(sessionHeap) > 1

RECURSIVE UpToDot(_)
UpToDot(s) == IF s = <<>> THEN <<>>
              ELSE IF Head(s) = "." THEN <<".">> ELSE <<Head(s)>> \o UpToDot(Tail(s))
Dots(s) == {k \in 1..Len(s) : s[k] = "."}

\* C27: for every trimmed provider text, the reply is the text up to and
\* including its first period if it has one, else the text itself; so the
\* reply has at most one period, which is its last character, and normalising
\* the reply again gives the reply.
C27_ReplyNormalised ==
  \A i \in AudioTasks :
     (tasks[i].pc = "p_fanB" /\ tasks[i].genRaw # <<>>)
     => LET r == Trim(tasks[i].genRaw[1])
            n == NormalizeReply(tasks[i].genRaw[1])
        IN /\ n = IF Dots(r) # {} THEN UpToDot(r) ELSE r
           /\ tasks[i].aiResponse = Str(n)
           /\ Cardinality(Dots(n)) <= 1
           /\ Dots(n) # {} => n[Len(n)] = "."
           /\ NormalizeReply(n) = n
\* the provider's text had two periods and text after the first
C27_Witness ==
  \E i \in AudioTasks :
     /\ tasks[i].pc = "p_fanB" /\ tasks[i].genRaw = << <<"a", ".", "a", ".">> >>
     /\ tasks[i].aiResponse = "a."

\* C29: every promise returned by connectWS and by sendCompleteAudio is
\* eventually settled, whatever the application calls and whatever the socket
\* and the server do.
C29_PromisesSettle ==
  \A k \in ClientPromises :
     []((k \in PromiseIds /\ promises[k].kind \in {"connect", "audio"})
        => <>(k \in PromiseIds /\ promises[k].st # "pending"))
\* closeSocket was called while the first socket was connecting and its promise
\* was rejected by the socket's error event; two sendCompleteAudio calls
\* overlapped and both are settled
C29_Witness ==
  /\ \E k \in PromiseIds :
        /\ promises[k].kind = "connect" /\ promises[k].sock = 1
        /\ sockets[1].failed /\ promises[k].timer = "cleared"
        /\ promises[k].st = "rejected" /\ promises[k].by = "socket error"
  /\ \E a, b \in PromiseIds :
        /\ promises[a].kind = "audio" /\ promises[b].kind = "audio"
        /\ promises[b].o1 = a
        /\ promises[a].st # "pending" /\ promises[b].st # "pending"

CloseKeepsStep ==
  \A a \in Conns :
     (wsOpen[a] /\ ~wsOpen'[a])
     => \A b \in Conns \ {a} :
           (wsOpen[b] /\ wsSessions[b] # 0)
           => LET key == clientHeap[wsSessions[b]].sessionId
              IN sessions'[key] = sessions[key]

\* C31 (as stated): closing a connection leaves in the store the Session of
\* every other open connection that is initialised, also when both connections
\* use the same (userId, friendId).
C31_CloseKeepsShared == [][CloseKeepsStep]_vars

Routed(k) ==
  \E c \in Conns : /\ wsOpen[c] /\ wsSessions[c] # 0
                   /\ clientHeap[wsSessions[c]].sessionId = k

\* C32 (as stated): whenever no handler is running, every key of the Session
\* Store is the key of the gateway's entry of an open connection.
C32_NoOrphans ==
  (\A i \in TaskIds : tasks[i].pc = "done")
  => \A k \in DOMAIN sessions : sessions[k] # 0 => Routed(k)

Idle(t) == FanAIdle(t) /\ FanBIdle(t) /\ t.bgUser = "idle" /\ t.bgAi = "idle"

ShortInv ==
  \A i \in AudioTasks :
     tasks[i].pc = "p_short_tts" => tasks[i].transcript = "" /\ Idle(tasks[i])

ShortStep ==
  \A i \in AudioTasks :
     i \in DOMAIN tasks' =>
       /\ (tasks[i].pc = "p_stt" /\ tasks'[i].pc \notin {"p_stt", "p_err_tts"}
              /\ tasks'[i].transcript = "")
          => tasks'[i].pc = "p_short_tts" /\ chat' = chat /\ sessionHeap' = sessionHeap
       /\ (tasks[i].pc = "p_short_tts" /\ tasks'[i].pc # "p_short_tts")
          => /\ tasks'[i].pc = "done" /\ chat' = chat /\ sessionHeap' = sessionHeap
             /\ tasks'[i].result.response = "I didn't catch that. Could you please try again?"
             /\ tasks'[i].result.transcript = "" /\ tasks'[i].result.error = Absent
             /\ tasks'[i].result.audioBuffer
                  \in {Absent, Mp3("I didn't catch that. Could you please try again?")}
             /\ tasks'[i].ctxAfter = tasks[i].ctxBefore
             /\ Idle(tasks'[i])

\* C33: a turn whose transcript is empty or blank leaves the session history
\* and the chat log as they were, calls neither Embed, RecallMemory, Generate
\* nor the background store, and only synthesizes the "didn't catch that" text.
C33_ShortCircuitInert == []ShortInv /\ [][ShortStep]_vars
\* a blank-transcript turn finished on a Session with a history
C33_Witness ==
  \E i \in AudioTasks :
     /\ tasks[i].accepted /\ tasks[i].pc = "done" /\ tasks[i].result # NoResult
     /\ tasks[i].result.transcript = "" /\ tasks[i].result.error = Absent
     /\ tasks[i].result.audioBuffer # Absent
     /\ Len(tasks[i].ctxBefore) > 0 /\ tasks[i].ctxAfter = tasks[i].ctxBefore

InvalidInitStep ==
  (Len(tasks') = Len(tasks) + 1 /\ tasks'[Len(tasks')].kind = "init"
     /\ (tasks'[Len(tasks')].userId \in {"", Absent} \/ tasks'[Len(tasks')].friendId \in {"", Absent}))
  => LET t == tasks'[Len(tasks')]
     IN /\ t.pc = "done" /\ t.sessMade = 0
        /\ Len(t.frames) = 1 /\ t.frames[1].type = "error"
        /\ sessions' = sessions /\ sessionHeap' = sessionHeap
        /\ wsSessions' = wsSessions /\ clientHeap' = clientHeap /\ chat' = chat

\* C34: an init frame without a userId or a friendId is answered with one error
\* frame; initializeSession is not called, the Session Store, the connection's
\* entry and its busy flag stay as they are.
C34_InvalidInitInert == [][InvalidInitStep]_vars
\* an init without friendId arrived while a turn of the connection held the flag
C34_Witness ==
  \E i \in InitTasks, j \in AudioTasks :
     /\ tasks[i].friendId = Absent /\ tasks[i].userId # "" /\ tasks[i].userId # Absent
     /\ j < i /\ tasks[j].conn = tasks[i].conn /\ InPipeline(j)
     /\ wsSessions[tasks[i].conn] # 0
     /\ clientHeap[wsSessions[tasks[i].conn]].isProcessing
     /\ FrameTypes(i) = <<"error">>

\* C35: a promise returned by sendCompleteAudio is resolved only by the gateway's
\* response to its own audio frame and rejected by an error frame only when that
\* frame answers its own audio frame (a socket error, which is no frame, aside)
AudioPromises == {k \in PromiseIds : promises[k].kind = "audio"}
C35_OwnFrameOnly ==
  \A k \in AudioPromises :
     /\ promises[k].st = "resolved" => promises[k].src = k
     /\ promises[k].st = "rejected" /\ promises[k].by = "error" => promises[k].src \in {0, k}

\* C35, the case the claim names: a second sendCompleteAudio is issued while the
\* first is pending and the gateway refuses it as a turn is in progress; the first
\* promise is not settled by that refusal
C35_FirstSurvivesRefusal ==
  \A k, l \in AudioPromises :
     k < l /\ promises[l].st = "rejected" /\ promises[l].src = l
       /\ promises[k].st = "rejected" /\ promises[k].by = "error" => promises[k].src # l

\* C36: once every initializeSession and sendCompleteAudio promise has settled,
\* onReady, onResponse and onError are the handlers the application installed
\* (0 names the application's handler; k > 0 the wrapper of request k)
ClientRequests == {k \in PromiseIds : promises[k].kind \in {"init", "audio"}}
C36_HandlersRestored ==
  (\A k \in ClientRequests : promises[k].st # "pending")
    => eventHandlers = [onReady |-> 0, onResponse |-> 0, onError |-> 0]

\* C37: connectWS constructs no socket while the current socket is CONNECTING or
\* OPEN, and the close event of a socket that is no longer the current one leaves
\* connectionPromise and isSessionReady of the newer socket alone
Live(s) == s # 0 /\ sockets[s].readyState \in {"CONNECTING", "OPEN"}
StaleClose(s) ==
  /\ socket # 0 /\ socket # s
  /\ sockets[s].readyState # "CLOSED" /\ sockets'[s].readyState = "CLOSED"
ConnectionStep ==
  /\ Len(sockets') > Len(sockets) => ~Live(socket)
  /\ \A s \in DOMAIN sockets :
       StaleClose(s) => /\ connectionPromise' = connectionPromise
                        /\ isSessionReady' = isSessionReady
C37_ConnectionIsCurrent == [][ConnectionStep]_vars

\* C37, first half alone: a step that constructs a socket starts from a state
\* whose current socket is neither CONNECTING nor OPEN
C37_NoSecondSocket == [][Len(sockets') > Len(sockets) => ~Live(socket)]_vars

\* C38: isSessionReady holds only while the current socket is open and has
\* received a ready frame, and every audio frame written went to a socket that
\* had received one
C38_ReadyIsCurrent ==
  isSessionReady => /\ socket # 0
                    /\ sockets[socket].readyState = "OPEN"
                    /\ sockets[socket].readySeen
C38_AudioAfterReady ==
  \A s \in DOMAIN sockets : \A i \in DOMAIN sockets[s].inq :
     LET k == sockets[s].inq[i]
     IN promises[k].kind = "audio" => promises[k].ack

\* C39: when no deductCredits request is in flight, the stored credits are the
\* opening credits minus the amounts of the requests answered 200, are >= 0, and
\* 0 <= freeCredits <= credits
RECURSIVE SpentUpTo(_)
SpentUpTo(n) ==
  IF n = 0 THEN 0
  ELSE SpentUpTo(n - 1) + (IF requests[n].status = 200 THEN requests[n].amount ELSE 0)
Spent == SpentUpTo(Len(requests))
Quiet == \A i \in DOMAIN requests : requests[i].pc = "done"
C39_NoOverspend ==
  Quiet /\ subscription # <<>> =>
     /\ subscription[1].credits >= 0
     /\ subscription[1].credits = opening[1].credits - Spent
     /\ 0 <= subscription[1].freeCredits
     /\ subscription[1].freeCredits <= subscription[1].credits

\* C39 with every database and redis call succeeding
C39_NoOverspendHealthy ==
  (\A i \in DOMAIN requests : requests[i].status # 500) => C39_NoOverspend

\* C39, the parts that do not depend on the interleaving
C39_RowStaysValid ==
  subscription # <<>> => /\ subscription[1].credits >= 0
                         /\ 0 <= subscription[1].freeCredits
                         /\ subscription[1].freeCredits <= subscription[1].credits

\* C40: after a status request reported "failed", pollVideoStatus has raised and
\* issued no further status request
C40_FailedStops ==
  poll.failedAt # 0 => poll.pc = "thrown" /\ poll.requests = poll.failedAt

\* C40, the other parts: at most 60 status requests, the URL on "completed",
\* and termination
C40_AtMostSixty == poll.requests <= maxAttempts
C40_CompletedReturns ==
  [][poll.pc = "get" /\ poll'.pc = "returned"
       => poll'.result = "video_url" /\ poll'.requests = poll.requests]_vars
C40_Terminates == poll.pc # "idle" ~> poll.pc \in {"returned", "thrown"}

====
